---- MODULE Spec2Model ----
(***************************************************************************)
(* Chapter08 concurrency recipes.                                          *)
(*   recipe_8_03: move_between moving a value between two containers,   *)
(*                each with its own mutex, both locked with std::lock.     *)
(*   recipe_8_04: class foo_rec (std::recursive_mutex) and class foo      *)
(*                (std::mutex), called by two threads.                     *)
(*   recipe_8_05: producers / consumer over g_buffer, guarded by           *)
(*                g_lockqueue, signalled through g_queuecheck, stopped by  *)
(*                the plain bool g_done.                                   *)
(*   recipe_8_02: two throwing thread functions depositing                 *)
(*                std::exception_ptr into g_exceptions under g_mutex.      *)
(*   recipe_8_06: produce_value / consume_value passing 42 through a       *)
(*                std::promise<int> / std::future<int> pair.               *)
(*   recipe_8_07: std::async tasks awaited with wait(), get() and a        *)
(*                wait_for() polling loop.                                 *)
(***************************************************************************)
EXTENDS Integers, Sequences, FiniteSets, Bags, TLC

\* ------------------------------------------------------------------------
\* Bounds and program constants
\* ------------------------------------------------------------------------

\* number of producer threads started by execute() (the recipe starts 5)
NumProducers == 2

\* recipe_8_07: how many waits of 300ms may time out before the task is done
MaxPolls == 3

\* recipe_8_04: how many calls each thread makes on an object
MaxCalls == 2

\* recipe_8_04: the arguments of the calls are drawn from 1 .. MaxArg
MaxArg == 2

\* recipe_8_04: foo(int const d = 0), foo_rec(int const d = 0)
DefaultData == 0

\* for (int i = 0; i < 3; ++i) in producer()
ItemsPerProducer == 3

\* value = id * 100 + dcode(generator)
IdFactor == 100

\* dcode = uniform_int_distribution<>{1, 99}: the lower end of the range
DCodeMin == 1

\* the codes drawn in the model.  No step of the recipe reads a value it
\* pushed or popped, so one code per draw exercises every path; items of
\* different producers still differ by id * 100
DCodes == {DCodeMin}

Producers == 0 .. (NumProducers - 1)

\* thread identities, as owners of a std::mutex
NoThread == <<"none", 0>>
ConsumerThread == <<"consumer", 0>>
ProducerThread(p) == <<"producer", p>>

VARIABLES
    \* ---- recipe_8_05 ----
    g_buffer,        \* std::queue<int> g_buffer
    g_lockqueue,     \* owner of std::mutex g_lockqueue
    g_lockprint,     \* owner of std::mutex g_lockprint
    g_done,          \* bool g_done, as stored by the main thread
    done_seen,       \* whether that store has reached the consumer thread
    mpc,             \* main thread: position in execute()
    mi,              \* main thread: loop index (spawn and join loops)
    ppc,             \* producer p: position in producer()
    pi,              \* producer p: loop variable i
    pvalue,          \* producer p: local variable value
    cpc,             \* consumer thread: position in consumer()
    wake,            \* why the consumer's last wait on g_queuecheck ended
    pushed,          \* every g_buffer.push(value), in the order performed
    consumed,        \* the "[consumed]: " lines written to std::cout
    consumerthread,  \* std::thread consumerthread: state of the handle
    threads,         \* std::vector<std::thread> threads: state of each handle
    \* ---- recipe_8_02 ----
    g_exceptions,    \* std::vector<std::exception_ptr> g_exceptions
    g_mutex,         \* owner of std::mutex g_mutex
    xmpc,            \* main thread: position in execute()
    xk,              \* main thread: index of the range-for over g_exceptions
    wpc,             \* worker w: position in thread_func<w>()
    inflight,        \* thread t: the exception being thrown, if any
    reported,        \* the what() strings written by the main thread
    terminated,      \* std::terminate() was called
    xthreads,        \* std::thread t1, t2: state of each handle
    \* ---- recipe_8_06 ----
    p_shared,        \* std::promise<int> p: the shared state it owns
    f_future,        \* std::future<int> f: whether it refers to the shared state
    fmpc,            \* main thread: position in execute()
    pvpc,            \* thread t1: position in produce_value()
    cvpc,            \* thread t2: position in consume_value()
    cv_value,        \* thread t2: local variable value
    f_mutex,         \* owner of std::mutex g_mutex
    f_out,           \* the values written to std::cout
    fthreads,        \* std::thread t1, t2: state of each handle
    f_terminated,    \* std::terminate() was called
    \* ---- recipe_8_07 ----
    a_shared,        \* the shared state of the future f of the current block
    a_future,        \* std::future f: whether it refers to the shared state
    ampc,            \* main thread: position in execute()
    atpc,            \* the thread started by std::async: position in its task
    a_value,         \* main thread: local variable value
    a_status,        \* main thread: local variable status
    a_polls,         \* the "waiting..." lines written to std::cout
    a_mutex,         \* owner of std::mutex g_mutex
    a_out,           \* the other lines written to std::cout, in order
    \* ---- recipe_8_03 ----
    c_data,          \* container<int> c1, c2: member data
    c_mutex,         \* container<int> c1, c2: owner of member mutex
    mvmpc,           \* main thread: position in execute()
    mv_i,            \* main thread: how many push_back calls it has made
    mbpc,            \* thread t: position in move_between()
    mb_first,        \* thread t: the argument of std::lock it locked first
    mv_out,          \* the containers as written to std::cout
    mvthreads,       \* std::thread t1, t2: state of each handle
    \* ---- recipe_8_04 ----
    calls,           \* thread t: the calls it makes, on foo and on foo_rec alike
    foo_data,        \* foo::data
    foo_m,           \* foo::m: owner
    foo_pc,          \* thread t: position in the member functions of foo
    foo_temp,        \* thread t: local variable temp of foo::update_with_return
    foo_ret,         \* thread t: what its calls on foo returned, in order
    foo_log,         \* the calls on foo in the order they locked foo::m
    rec_data,        \* foo_rec::data
    rec_m,           \* foo_rec::m: owner
    rec_count,       \* foo_rec::m: times the owner has locked it
    rec_pc,          \* thread t: position in the member functions of foo_rec
    rec_temp,        \* thread t: local temp of foo_rec::update_with_return
    rec_ret,         \* thread t: what its calls on foo_rec returned, in order
    rec_log          \* the calls on foo_rec in the order they locked foo_rec::m

qthreads == <<consumerthread, threads>>
qvars == <<g_buffer, g_lockqueue, g_lockprint, g_done, done_seen, mpc, mi,
           ppc, pi, pvalue, cpc, wake, pushed, consumed, consumerthread, threads>>
xvars == <<g_exceptions, g_mutex, xmpc, xk, wpc, inflight, reported, terminated,
           xthreads>>
vars == <<g_buffer, g_lockqueue, g_lockprint, g_done, done_seen, mpc, mi,
          ppc, pi, pvalue, cpc, wake, pushed, consumed, consumerthread, threads,
          g_exceptions, g_mutex, xmpc, xk, wpc, inflight, reported, terminated,
          xthreads,
          p_shared, f_future, fmpc, pvpc, cvpc, cv_value, f_mutex, f_out,
          fthreads, f_terminated,
          a_shared, a_future, ampc, atpc, a_value, a_status, a_polls, a_mutex,
          a_out,
          c_data, c_mutex, mvmpc, mv_i, mbpc, mb_first, mv_out, mvthreads,
          calls, foo_data, foo_m, foo_pc, foo_temp, foo_ret, foo_log,
          rec_data, rec_m, rec_count, rec_pc, rec_temp, rec_ret, rec_log>>
avars == <<a_shared, a_future, ampc, atpc, a_value, a_status, a_polls, a_mutex,
           a_out>>
fvars == <<p_shared, f_future, fmpc, pvpc, cvpc, cv_value, f_mutex, f_out,
           fthreads, f_terminated>>

\* what an action of one recipe leaves alone: the state of the other recipes
mvvars == <<c_data, c_mutex, mvmpc, mv_i, mbpc, mb_first, mv_out, mvthreads>>
foovars == <<foo_data, foo_m, foo_pc, foo_temp, foo_ret, foo_log>>
recvars == <<rec_data, rec_m, rec_count, rec_pc, rec_temp, rec_ret, rec_log>>
notq == <<xvars, fvars, avars, mvvars, calls, foovars, recvars>>
notx == <<qvars, fvars, avars, mvvars, calls, foovars, recvars>>
notf == <<qvars, xvars, avars, mvvars, calls, foovars, recvars>>
nota == <<qvars, xvars, fvars, mvvars, calls, foovars, recvars>>
notmv == <<qvars, xvars, fvars, avars, calls, foovars, recvars>>
notfoo == <<qvars, xvars, fvars, avars, mvvars, calls, recvars>>
notrec == <<qvars, xvars, fvars, avars, mvvars, calls, foovars>>

\* ------------------------------------------------------------------------
\* Primitives of the standard library used by the recipes
\* ------------------------------------------------------------------------

\* a lock() that does not wait for the owner to unlock
MutexFreeAlways(m) == TRUE

\* std::mutex: a lock() returns only when no thread owns the mutex
MutexFree(m) == m = NoThread

\* a push that inserts at the front (a stack instead of a queue)
QueuePushFront(q, v) == <<v>> \o q

\* an emptiness test that always answers "not empty"
QueueNeverEmpty(q) == FALSE

\* std::queue<int>::push, front, pop, empty
QueuePush(q, v) == Append(q, v)
QueueFront(q) == Head(q)
QueuePop(q) == Tail(q)
QueueEmpty(q) == q = <<>>

\* a notification that is dropped
NotifyDropped(c) == c

\* std::condition_variable::notify_one on g_queuecheck: the only thread that
\* ever waits on it is the consumer; a blocked consumer is made runnable
NotifyOne(c) == IF c = "c_blocked" THEN "c_woken" ELSE c

\* a join that returns although the thread is still running
ProducerFinishedEarly(pcv) == pcv # "p_unborn"

\* std::thread::join returns once the thread function has returned
ProducerFinished(pcv) == pcv = "p_done"

\* int value = id * 100 + dcode(generator);
MakeValue(id, code) == id * IdFactor + code

\* ------------------------------------------------------------------------
\* recipe_8_05: initial state
\* ------------------------------------------------------------------------
\* std::thread: a handle is not-a-thread until a thread is constructed into it,
\* joinable from then until join() returns, and never joinable again after;
\* detach() (called nowhere in these recipes) would make it "detached"
NotAThread == "not_a_thread"
ThreadConstruct(h) == "joinable"

\* a join that leaves the handle joinable
ThreadJoinForgotten(h) == h

\* std::thread::join: joinable() is false once it has returned
ThreadJoin(h) == "joined"

\* a join on the consumer that returns while consumer() is still running
ConsumerFinishedEarly(pcv) == pcv # "c_unborn"

\* consumerthread.join() returns once consumer() has returned
ConsumerFinished(pcv) == pcv = "c_done"

QInit ==
    /\ g_buffer = <<>>
    /\ g_lockqueue = NoThread
    /\ g_lockprint = NoThread
    /\ g_done = FALSE
    /\ done_seen = FALSE
    /\ mpc = "m_spawn_consumer"
    /\ mi = 0
    /\ ppc = [p \in Producers |-> "p_unborn"]
    /\ pi = [p \in Producers |-> 0]
    /\ pvalue = [p \in Producers |-> 0]
    /\ cpc = "c_unborn"
    /\ wake = "none"
    /\ pushed = <<>>
    /\ consumed = <<>>
    /\ consumerthread = NotAThread
    /\ threads = [p \in Producers |-> NotAThread]

\* ------------------------------------------------------------------------
\* recipe_8_05: producer(id, generator, dsleep, dcode)
\* ------------------------------------------------------------------------

\* value = id*100 + dcode(generator);  unique_lock locker(g_lockprint);
ProducerLockPrint(p) ==
    /\ ppc[p] = "p_lockprint"
    /\ MutexFree(g_lockprint)
    /\ \E code \in DCodes : pvalue' = [pvalue EXCEPT ![p] = MakeValue(p, code)]
    /\ g_lockprint' = ProducerThread(p)
    /\ ppc' = [ppc EXCEPT ![p] = "p_print"]
    /\ UNCHANGED <<g_buffer, g_lockqueue, g_done, done_seen, mpc, mi, pi, cpc,
                   wake, pushed, consumed>>
    /\ UNCHANGED qthreads
    /\ UNCHANGED notq

\* a producer that keeps g_lockprint when it goes on to lock the queue
ProducerPrintKeepsLock(p) ==
    /\ ppc[p] = "p_print"
    /\ ppc' = [ppc EXCEPT ![p] = "p_lockqueue"]
    /\ UNCHANGED <<g_buffer, g_lockqueue, g_lockprint, g_done, done_seen, mpc, mi,
                   pi, pvalue, cpc, wake, pushed, consumed>>
    /\ UNCHANGED qthreads
    /\ UNCHANGED notq

\* std::cout << "[produced]: " << value;  } releases g_lockprint
ProducerPrint(p) ==
    /\ ppc[p] = "p_print"
    /\ g_lockprint' = NoThread
    /\ ppc' = [ppc EXCEPT ![p] = "p_lockqueue"]
    /\ UNCHANGED <<g_buffer, g_lockqueue, g_done, done_seen, mpc, mi, pi, pvalue,
                   cpc, wake, pushed, consumed>>
    /\ UNCHANGED qthreads
    /\ UNCHANGED notq

\* std::unique_lock<std::mutex> locker(g_lockqueue);
ProducerLockQueue(p) ==
    /\ ppc[p] = "p_lockqueue"
    /\ MutexFree(g_lockqueue)
    /\ g_lockqueue' = ProducerThread(p)
    /\ ppc' = [ppc EXCEPT ![p] = "p_push"]
    /\ UNCHANGED <<g_buffer, g_lockprint, g_done, done_seen, mpc, mi, pi, pvalue,
                   cpc, wake, pushed, consumed>>
    /\ UNCHANGED qthreads
    /\ UNCHANGED notq

\* g_buffer.push(value);
ProducerPush(p) ==
    /\ ppc[p] = "p_push"
    /\ g_buffer' = QueuePush(g_buffer, pvalue[p])
    /\ pushed' = Append(pushed, pvalue[p])
    /\ ppc' = [ppc EXCEPT ![p] = "p_notify"]
    /\ UNCHANGED <<g_lockqueue, g_lockprint, g_done, done_seen, mpc, mi, pi,
                   pvalue, cpc, wake, consumed>>
    /\ UNCHANGED qthreads
    /\ UNCHANGED notq

\* a producer that releases g_lockqueue before it signals
ProducerNotifyUnlocked(p) ==
    /\ ppc[p] = "p_notify"
    /\ g_lockqueue' = NoThread
    /\ cpc' = NotifyOne(cpc)
    /\ wake' = IF cpc' # cpc THEN "notified" ELSE wake
    /\ ppc' = [ppc EXCEPT ![p] = "p_unlock"]
    /\ UNCHANGED <<g_buffer, g_lockprint, g_done, done_seen, mpc, mi,
                   pi, pvalue, pushed, consumed>>
    /\ UNCHANGED qthreads
    /\ UNCHANGED notq

\* g_queuecheck.notify_one();
ProducerNotify(p) ==
    /\ ppc[p] = "p_notify"
    /\ cpc' = NotifyOne(cpc)
    /\ wake' = IF cpc' # cpc THEN "notified" ELSE wake
    /\ ppc' = [ppc EXCEPT ![p] = "p_unlock"]
    /\ UNCHANGED <<g_buffer, g_lockqueue, g_lockprint, g_done, done_seen, mpc, mi,
                   pi, pvalue, pushed, consumed>>
    /\ UNCHANGED qthreads
    /\ UNCHANGED notq

\* } releases g_lockqueue;  value goes out of scope;  ++i;  i < 3
ProducerUnlock(p) ==
    /\ ppc[p] = "p_unlock"
    /\ g_lockqueue' = NoThread
    /\ pi' = [pi EXCEPT ![p] = pi[p] + 1]
    /\ pvalue' = [pvalue EXCEPT ![p] = 0]
    /\ ppc' = [ppc EXCEPT ![p] = IF pi[p] + 1 < ItemsPerProducer
                                  THEN "p_lockprint" ELSE "p_done"]
    /\ UNCHANGED <<g_buffer, g_lockprint, g_done, done_seen, mpc, mi, cpc,
                   wake, pushed, consumed>>
    /\ UNCHANGED qthreads
    /\ UNCHANGED notq

Producer(p) ==
    \/ ProducerLockPrint(p)
    \/ ProducerPrint(p)
    \/ ProducerLockQueue(p)
    \/ ProducerPush(p)
    \/ ProducerNotify(p)
    \/ ProducerUnlock(p)

\* ------------------------------------------------------------------------
\* recipe_8_05: consumer()
\* ------------------------------------------------------------------------

\* while (!g_done): an unsynchronised read of the plain bool; the consumer
\* sees the main thread's store only once it has reached this thread
ConsumerCheckDone ==
    /\ cpc = "c_check"
    /\ cpc' = IF done_seen THEN "c_done" ELSE "c_lock"
    /\ UNCHANGED <<g_buffer, g_lockqueue, g_lockprint, g_done, done_seen, mpc, mi,
                   ppc, pi, pvalue, wake, pushed, consumed>>
    /\ UNCHANGED qthreads
    /\ UNCHANGED notq

\* std::unique_lock<std::mutex> locker(g_lockqueue);
ConsumerLockQueue ==
    /\ cpc = "c_lock"
    /\ MutexFree(g_lockqueue)
    /\ g_lockqueue' = ConsumerThread
    /\ cpc' = "c_pred"
    /\ UNCHANGED <<g_buffer, g_lockprint, g_done, done_seen, mpc, mi, ppc, pi,
                   pvalue, wake, pushed, consumed>>
    /\ UNCHANGED qthreads
    /\ UNCHANGED notq

\* wait_for(locker, 1s, pred): while (!pred()) wait_until(...): with the
\* predicate false the mutex is released and the thread blocks, atomically
ConsumerWaitPred ==
    /\ cpc = "c_pred"
    /\ IF ~QueueEmpty(g_buffer)
       THEN /\ cpc' = "c_loop"
            /\ UNCHANGED g_lockqueue
       ELSE /\ cpc' = "c_blocked"
            /\ g_lockqueue' = NoThread
    /\ UNCHANGED <<g_buffer, g_lockprint, g_done, done_seen, mpc, mi, ppc, pi,
                   pvalue, wake, pushed, consumed>>
    /\ UNCHANGED qthreads
    /\ UNCHANGED notq

\* wait() in place of wait_for(): the wait has no timeout
ConsumerNoTimeout ==
    /\ cpc = "c_blocked"
    /\ FALSE
    /\ UNCHANGED vars

\* the one second of wait_for elapses
ConsumerTimeout ==
    /\ cpc = "c_blocked"
    /\ cpc' = "c_woken"
    /\ wake' = "timeout"
    /\ UNCHANGED <<g_buffer, g_lockqueue, g_lockprint, g_done, done_seen, mpc, mi,
                   ppc, pi, pvalue, pushed, consumed>>
    /\ UNCHANGED qthreads
    /\ UNCHANGED notq

\* a spurious wakeup of the condition variable
ConsumerSpurious ==
    /\ cpc = "c_blocked"
    /\ cpc' = "c_woken"
    /\ wake' = "spurious"
    /\ UNCHANGED <<g_buffer, g_lockqueue, g_lockprint, g_done, done_seen, mpc, mi,
                   ppc, pi, pvalue, pushed, consumed>>
    /\ UNCHANGED qthreads
    /\ UNCHANGED notq

\* the wait re-acquires the mutex before it returns; after a timeout wait_for
\* returns pred() (ignored by consumer()), otherwise it tests pred() again
ConsumerReacquire ==
    /\ cpc = "c_woken"
    /\ MutexFree(g_lockqueue)
    /\ g_lockqueue' = ConsumerThread
    /\ cpc' = IF wake = "timeout" THEN "c_loop" ELSE "c_pred"
    /\ wake' = "none"
    /\ UNCHANGED <<g_buffer, g_lockprint, g_done, done_seen, mpc, mi, ppc, pi,
                   pvalue, pushed, consumed>>
    /\ UNCHANGED qthreads
    /\ UNCHANGED notq

\* an outer iteration that ends without releasing g_lockqueue
ConsumerLoopTestKeepsLock ==
    /\ cpc = "c_loop"
    /\ cpc' = IF ~QueueEmpty(g_buffer) THEN "c_lockprint" ELSE "c_check"
    /\ UNCHANGED <<g_buffer, g_lockqueue, g_lockprint, g_done, done_seen, mpc, mi,
                   ppc, pi, pvalue, wake, pushed, consumed>>
    /\ UNCHANGED qthreads
    /\ UNCHANGED notq

\* while (!g_buffer.empty()) ... ; at the end of the outer iteration the
\* destructor of locker releases g_lockqueue
ConsumerLoopTest ==
    /\ cpc = "c_loop"
    /\ IF ~QueueEmpty(g_buffer)
       THEN /\ cpc' = "c_lockprint"
            /\ UNCHANGED g_lockqueue
       ELSE /\ cpc' = "c_check"
            /\ g_lockqueue' = NoThread
    /\ UNCHANGED <<g_buffer, g_lockprint, g_done, done_seen, mpc, mi, ppc, pi,
                   pvalue, wake, pushed, consumed>>
    /\ UNCHANGED qthreads
    /\ UNCHANGED notq

\* std::unique_lock<std::mutex> locker(g_lockprint);
ConsumerLockPrint ==
    /\ cpc = "c_lockprint"
    /\ MutexFree(g_lockprint)
    /\ g_lockprint' = ConsumerThread
    /\ cpc' = "c_front"
    /\ UNCHANGED <<g_buffer, g_lockqueue, g_done, done_seen, mpc, mi, ppc, pi,
                   pvalue, wake, pushed, consumed>>
    /\ UNCHANGED qthreads
    /\ UNCHANGED notq

\* std::cout << "[consumed]: " << g_buffer.front() << std::endl;
ConsumerFront ==
    /\ cpc = "c_front"
    /\ consumed' = Append(consumed, QueueFront(g_buffer))
    /\ cpc' = "c_pop"
    /\ UNCHANGED <<g_buffer, g_lockqueue, g_lockprint, g_done, done_seen, mpc, mi,
                   ppc, pi, pvalue, wake, pushed>>
    /\ UNCHANGED qthreads
    /\ UNCHANGED notq

\* a pop after which the consumer still holds g_lockprint
ConsumerPopKeepsPrintLock ==
    /\ cpc = "c_pop"
    /\ g_buffer' = QueuePop(g_buffer)
    /\ cpc' = "c_loop"
    /\ UNCHANGED <<g_lockqueue, g_lockprint, g_done, done_seen, mpc, mi, ppc, pi,
                   pvalue, wake, pushed, consumed>>
    /\ UNCHANGED qthreads
    /\ UNCHANGED notq

\* g_buffer.pop();  } releases g_lockprint
ConsumerPop ==
    /\ cpc = "c_pop"
    /\ g_buffer' = QueuePop(g_buffer)
    /\ g_lockprint' = NoThread
    /\ cpc' = "c_loop"
    /\ UNCHANGED <<g_lockqueue, g_done, done_seen, mpc, mi, ppc, pi, pvalue, wake,
                   pushed, consumed>>
    /\ UNCHANGED qthreads
    /\ UNCHANGED notq

\* the steps the consumer thread takes by itself, the timeout included
Consumer ==
    \/ ConsumerCheckDone
    \/ ConsumerLockQueue
    \/ ConsumerWaitPred
    \/ ConsumerTimeout
    \/ ConsumerReacquire
    \/ ConsumerLoopTest
    \/ ConsumerLockPrint
    \/ ConsumerFront
    \/ ConsumerPop

\* the store g_done = true becomes visible to the consumer thread
DoneVisible ==
    /\ g_done
    /\ ~done_seen
    /\ done_seen' = TRUE
    /\ UNCHANGED <<g_buffer, g_lockqueue, g_lockprint, g_done, mpc, mi, ppc, pi,
                   pvalue, cpc, wake, pushed, consumed>>
    /\ UNCHANGED qthreads
    /\ UNCHANGED notq

\* ------------------------------------------------------------------------
\* recipe_8_05: execute()
\* ------------------------------------------------------------------------

\* std::thread consumerthread(consumer);
MainSpawnConsumer ==
    /\ mpc = "m_spawn_consumer"
    /\ cpc' = "c_check"
    /\ mpc' = "m_spawn_producers"
    /\ mi' = 0
    /\ consumerthread' = ThreadConstruct(consumerthread)
    /\ UNCHANGED <<g_buffer, g_lockqueue, g_lockprint, g_done, done_seen, ppc, pi,
                   pvalue, wake, pushed, consumed, threads>>
    /\ UNCHANGED notq

\* for (int i = 0; i < 5; ++i) threads.emplace_back(producer, i, ...);
MainSpawnProducer ==
    /\ mpc = "m_spawn_producers"
    /\ IF mi < NumProducers
       THEN /\ ppc' = [ppc EXCEPT ![mi] = "p_lockprint"]
            /\ threads' = [threads EXCEPT ![mi] = ThreadConstruct(threads[mi])]
            /\ mi' = mi + 1
            /\ UNCHANGED mpc
       ELSE /\ mpc' = "m_join"
            /\ mi' = 0
            /\ UNCHANGED <<ppc, threads>>
    /\ UNCHANGED <<g_buffer, g_lockqueue, g_lockprint, g_done, done_seen, pi,
                   pvalue, cpc, wake, pushed, consumed, consumerthread>>
    /\ UNCHANGED notq

\* for (auto& t : threads) t.join();
MainJoinProducer ==
    /\ mpc = "m_join"
    /\ IF mi < NumProducers
       THEN /\ threads[mi] = "joinable"
            /\ ProducerFinished(ppc[mi])
            /\ threads' = [threads EXCEPT ![mi] = ThreadJoin(threads[mi])]
            /\ mi' = mi + 1
            /\ UNCHANGED mpc
       ELSE /\ mpc' = "m_setdone"
            /\ UNCHANGED <<mi, threads>>
    /\ UNCHANGED <<g_buffer, g_lockqueue, g_lockprint, g_done, done_seen, ppc, pi,
                   pvalue, cpc, wake, pushed, consumed, consumerthread>>
    /\ UNCHANGED notq

\* g_done = true;
MainSetDone ==
    /\ mpc = "m_setdone"
    /\ g_done' = TRUE
    /\ mpc' = "m_join_consumer"
    /\ UNCHANGED <<g_buffer, g_lockqueue, g_lockprint, done_seen, mi, ppc, pi,
                   pvalue, cpc, wake, pushed, consumed>>
    /\ UNCHANGED qthreads
    /\ UNCHANGED notq

\* consumerthread.join();
MainJoinConsumer ==
    /\ mpc = "m_join_consumer"
    /\ consumerthread = "joinable"
    /\ ConsumerFinished(cpc)
    /\ consumerthread' = ThreadJoin(consumerthread)
    /\ mpc' = "m_report"
    /\ UNCHANGED <<g_buffer, g_lockqueue, g_lockprint, g_done, done_seen, mi, ppc,
                   pi, pvalue, cpc, wake, pushed, consumed, threads>>
    /\ UNCHANGED notq

\* std::cout << "done producing and consuming" << std::endl;  and return
MainReportDone ==
    /\ mpc = "m_report"
    /\ mpc' = "m_done"
    /\ UNCHANGED <<g_buffer, g_lockqueue, g_lockprint, g_done, done_seen, mi, ppc,
                   pi, pvalue, cpc, wake, pushed, consumed>>
    /\ UNCHANGED qthreads
    /\ UNCHANGED notq

Main ==
    \/ MainSpawnConsumer
    \/ MainSpawnProducer
    \/ MainJoinProducer
    \/ MainSetDone
    \/ MainJoinConsumer
    \/ MainReportDone

\* ------------------------------------------------------------------------
\* recipe_8_02: exceptions, handlers, the container
\* ------------------------------------------------------------------------
Workers == {1, 2}

\* the thread that runs execute(), as an index beside the workers
XMainThread == 0

WorkerThread(w) == <<"worker", w>>

\* std::exception_ptr{}: no exception
NoException == [type |-> "none", what |-> ""]

\* func1: throw std::runtime_error("exception 1"s);
\* func2: throw std::runtime_error("exception 2");
ThrownBy(w) ==
    [type |-> "std::runtime_error",
     what |-> IF w = 1 THEN "exception 1" ELSE "exception 2"]

\* the classes a handler type accepts: std::runtime_error derives from
\* std::exception; catch (...) accepts everything
Catches(handler, type) ==
    \/ handler = "..."
    \/ handler = type
    \/ handler = "std::exception" /\ type \in {"std::runtime_error", "std::logic_error"}

\* a handler that is too narrow for what the thread function throws
ThreadFuncHandlerNarrow == "std::logic_error"

\* thread_func1 / thread_func2: } catch (...) {
ThreadFuncHandler == "..."

\* execute: } catch (std::exception const& ex) {
ReportHandler == "std::exception"

\* a single slot in place of the container: the last deposit wins
VectorOverwrite(v, e) == <<e>>

\* std::vector::push_back
VectorPushBack(v, e) == Append(v, e)

\* a loop over the container that runs from the back
VectorAtReversed(v, k) == v[Len(v) + 1 - k]

\* for (auto const& e : g_exceptions): the k-th element visited
VectorAt(v, k) == v[k]

\* a join that returns although the thread function is still running
WorkerFinishedEarly(pcv) == pcv # "w_unborn"

\* std::thread::join returns once the thread function has returned
WorkerFinished(pcv) == pcv = "w_returned"

XInit ==
    /\ g_exceptions = <<>>
    /\ g_mutex = NoThread
    /\ xmpc = "x_clear"
    /\ xk = 1
    /\ wpc = [w \in Workers |-> "w_unborn"]
    /\ inflight = [t \in Workers \cup {XMainThread} |-> NoException]
    /\ reported = <<>>
    /\ terminated = FALSE
    /\ xthreads = [w \in Workers |-> NotAThread]

\* ------------------------------------------------------------------------
\* recipe_8_02: thread_func1() / thread_func2()
\* ------------------------------------------------------------------------

\* try { func<w>();
WorkerCall(w) ==
    /\ ~terminated
    /\ wpc[w] = "w_try"
    /\ wpc' = [wpc EXCEPT ![w] = "w_throw"]
    /\ UNCHANGED <<g_exceptions, g_mutex, xmpc, xk, inflight, reported, terminated>>
    /\ UNCHANGED xthreads
    /\ UNCHANGED notx

\* throw std::runtime_error("exception <w>");
WorkerThrow(w) ==
    /\ ~terminated
    /\ wpc[w] = "w_throw"
    /\ inflight' = [inflight EXCEPT ![w] = ThrownBy(w)]
    /\ wpc' = [wpc EXCEPT ![w] = "w_unwind"]
    /\ UNCHANGED <<g_exceptions, g_mutex, xmpc, xk, reported, terminated>>
    /\ UNCHANGED xthreads
    /\ UNCHANGED notx

\* the exception unwinds to the handler of the thread function; an exception
\* that no handler accepts leaves the thread function: std::terminate()
WorkerUnwind(w) ==
    /\ ~terminated
    /\ wpc[w] = "w_unwind"
    /\ IF Catches(ThreadFuncHandler, inflight[w].type)
       THEN /\ wpc' = [wpc EXCEPT ![w] = "w_caught"]
            /\ UNCHANGED terminated
       ELSE /\ wpc' = [wpc EXCEPT ![w] = "w_escaped"]
            /\ terminated' = TRUE
    /\ UNCHANGED <<g_exceptions, g_mutex, xmpc, xk, inflight, reported>>
    /\ UNCHANGED xthreads
    /\ UNCHANGED notx

\* std::cout << "Caught runtime error <w>.\n";
WorkerPrintCaught(w) ==
    /\ ~terminated
    /\ wpc[w] = "w_caught"
    /\ wpc' = [wpc EXCEPT ![w] = "w_lock"]
    /\ UNCHANGED <<g_exceptions, g_mutex, xmpc, xk, inflight, reported, terminated>>
    /\ UNCHANGED xthreads
    /\ UNCHANGED notx

\* a deposit made without taking g_mutex
WorkerLockSkipped(w) ==
    /\ ~terminated
    /\ wpc[w] = "w_lock"
    /\ wpc' = [wpc EXCEPT ![w] = "w_push"]
    /\ UNCHANGED <<g_exceptions, g_mutex, xmpc, xk, inflight, reported, terminated>>
    /\ UNCHANGED xthreads
    /\ UNCHANGED notx

\* std::lock_guard<std::mutex> lock(g_mutex);
WorkerLock(w) ==
    /\ ~terminated
    /\ wpc[w] = "w_lock"
    /\ MutexFree(g_mutex)
    /\ g_mutex' = WorkerThread(w)
    /\ wpc' = [wpc EXCEPT ![w] = "w_push"]
    /\ UNCHANGED <<g_exceptions, xmpc, xk, inflight, reported, terminated>>
    /\ UNCHANGED xthreads
    /\ UNCHANGED notx

\* g_exceptions.push_back(std::current_exception());
WorkerPushBack(w) ==
    /\ ~terminated
    /\ wpc[w] = "w_push"
    /\ g_exceptions' = VectorPushBack(g_exceptions, inflight[w])
    /\ wpc' = [wpc EXCEPT ![w] = "w_unlock"]
    /\ UNCHANGED <<g_mutex, xmpc, xk, inflight, reported, terminated>>
    /\ UNCHANGED xthreads
    /\ UNCHANGED notx

\* } : the lock_guard releases g_mutex, the handler ends, the function returns
WorkerUnlock(w) ==
    /\ ~terminated
    /\ wpc[w] = "w_unlock"
    /\ g_mutex' = NoThread
    /\ inflight' = [inflight EXCEPT ![w] = NoException]
    /\ wpc' = [wpc EXCEPT ![w] = "w_returned"]
    /\ UNCHANGED <<g_exceptions, xmpc, xk, reported, terminated>>
    /\ UNCHANGED xthreads
    /\ UNCHANGED notx

Worker(w) ==
    \/ WorkerCall(w)
    \/ WorkerThrow(w)
    \/ WorkerUnwind(w)
    \/ WorkerPrintCaught(w)
    \/ WorkerLock(w)
    \/ WorkerPushBack(w)
    \/ WorkerUnlock(w)

\* ------------------------------------------------------------------------
\* recipe_8_02: execute()
\* ------------------------------------------------------------------------

\* g_exceptions.clear();
XMainClear ==
    /\ ~terminated
    /\ xmpc = "x_clear"
    /\ g_exceptions' = <<>>
    /\ xmpc' = "x_spawn1"
    /\ UNCHANGED <<g_mutex, xk, wpc, inflight, reported, terminated>>
    /\ UNCHANGED xthreads
    /\ UNCHANGED notx

\* std::thread t1(thread_func1);
XMainSpawn1 ==
    /\ ~terminated
    /\ xmpc = "x_spawn1"
    /\ wpc' = [wpc EXCEPT ![1] = "w_try"]
    /\ xthreads' = [xthreads EXCEPT ![1] = ThreadConstruct(xthreads[1])]
    /\ xmpc' = "x_spawn2"
    /\ UNCHANGED <<g_exceptions, g_mutex, xk, inflight, reported, terminated>>
    /\ UNCHANGED notx

\* std::thread t2(thread_func2);
XMainSpawn2 ==
    /\ ~terminated
    /\ xmpc = "x_spawn2"
    /\ wpc' = [wpc EXCEPT ![2] = "w_try"]
    /\ xthreads' = [xthreads EXCEPT ![2] = ThreadConstruct(xthreads[2])]
    /\ xmpc' = "x_join1"
    /\ UNCHANGED <<g_exceptions, g_mutex, xk, inflight, reported, terminated>>
    /\ UNCHANGED notx

\* t1.join();
XMainJoin1 ==
    /\ ~terminated
    /\ xmpc = "x_join1"
    /\ xthreads[1] = "joinable"
    /\ WorkerFinished(wpc[1])
    /\ xthreads' = [xthreads EXCEPT ![1] = ThreadJoin(xthreads[1])]
    /\ xmpc' = "x_join2"
    /\ UNCHANGED <<g_exceptions, g_mutex, xk, wpc, inflight, reported, terminated>>
    /\ UNCHANGED notx

\* t2.join();
XMainJoin2 ==
    /\ ~terminated
    /\ xmpc = "x_join2"
    /\ xthreads[2] = "joinable"
    /\ WorkerFinished(wpc[2])
    /\ xthreads' = [xthreads EXCEPT ![2] = ThreadJoin(xthreads[2])]
    /\ xmpc' = "x_report"
    /\ xk' = 1
    /\ UNCHANGED <<g_exceptions, g_mutex, wpc, inflight, reported, terminated>>
    /\ UNCHANGED notx

\* for (auto const& e : g_exceptions)
XMainLoopTest ==
    /\ ~terminated
    /\ xmpc = "x_report"
    /\ xmpc' = IF xk <= Len(g_exceptions) THEN "x_test" ELSE "x_done"
    /\ UNCHANGED <<g_exceptions, g_mutex, xk, wpc, inflight, reported, terminated>>
    /\ UNCHANGED xthreads
    /\ UNCHANGED notx

\* if (e != nullptr)
XMainTestNull ==
    /\ ~terminated
    /\ xmpc = "x_test"
    /\ IF VectorAt(g_exceptions, xk) # NoException
       THEN /\ xmpc' = "x_rethrow"
            /\ UNCHANGED xk
       ELSE /\ xmpc' = "x_report"
            /\ xk' = xk + 1
    /\ UNCHANGED <<g_exceptions, g_mutex, wpc, inflight, reported, terminated>>
    /\ UNCHANGED xthreads
    /\ UNCHANGED notx

\* std::rethrow_exception(e);
XMainRethrow ==
    /\ ~terminated
    /\ xmpc = "x_rethrow"
    /\ inflight' = [inflight EXCEPT ![XMainThread] = VectorAt(g_exceptions, xk)]
    /\ xmpc' = "x_unwind"
    /\ UNCHANGED <<g_exceptions, g_mutex, xk, wpc, reported, terminated>>
    /\ UNCHANGED xthreads
    /\ UNCHANGED notx

\* } catch (std::exception const& ex) { : an exception this handler does not
\* accept leaves execute()
XMainUnwind ==
    /\ ~terminated
    /\ xmpc = "x_unwind"
    /\ xmpc' = IF Catches(ReportHandler, inflight[XMainThread].type)
               THEN "x_print" ELSE "x_escaped"
    /\ UNCHANGED <<g_exceptions, g_mutex, xk, wpc, inflight, reported, terminated>>
    /\ UNCHANGED xthreads
    /\ UNCHANGED notx

\* a report that erases the element it has just reported
XMainPrintErases ==
    /\ ~terminated
    /\ xmpc = "x_print"
    /\ reported' = Append(reported, inflight[XMainThread].what)
    /\ g_exceptions' = [i \in 1 .. Len(g_exceptions) - 1 |->
                           IF i < xk THEN g_exceptions[i] ELSE g_exceptions[i + 1]]
    /\ inflight' = [inflight EXCEPT ![XMainThread] = NoException]
    /\ xk' = xk + 1
    /\ xmpc' = "x_report"
    /\ UNCHANGED <<g_mutex, wpc, terminated>>
    /\ UNCHANGED xthreads
    /\ UNCHANGED notx

\* std::cout << "Catching exceptions ..." << ex.what() << std::endl;  }
XMainPrint ==
    /\ ~terminated
    /\ xmpc = "x_print"
    /\ reported' = Append(reported, inflight[XMainThread].what)
    /\ inflight' = [inflight EXCEPT ![XMainThread] = NoException]
    /\ xk' = xk + 1
    /\ xmpc' = "x_report"
    /\ UNCHANGED <<g_exceptions, g_mutex, wpc, terminated>>
    /\ UNCHANGED xthreads
    /\ UNCHANGED notx

XMain ==
    \/ XMainClear
    \/ XMainSpawn1
    \/ XMainSpawn2
    \/ XMainJoin1
    \/ XMainJoin2
    \/ XMainLoopTest
    \/ XMainTestNull
    \/ XMainRethrow
    \/ XMainUnwind
    \/ XMainPrint

\* ------------------------------------------------------------------------
\* recipe_8_06: std::promise<int> / std::future<int>
\* ------------------------------------------------------------------------

\* p.set_value(42);
ProducedValue == 42

NoError == "none"
FutureErrors == {"promise_already_satisfied", "no_state", "broken_promise"}

\* the shared state of a promise/future pair: empty, or holding a value, or
\* holding an exception
SharedUnset == [tag |-> "unset", value |-> 0, error |-> NoError]
SharedValue(v) == [tag |-> "value", value |-> v, error |-> NoError]
SharedError(e) == [tag |-> "error", value |-> 0, error |-> e]

\* a set_value that stores over whatever the shared state holds
PromiseSetValueOverwrites(sh, v) ==
    [shared |-> SharedValue(v), raised |-> NoError]

\* std::promise<int>::set_value: stores the value and makes the state ready;
\* throws future_error(promise_already_satisfied) if a value or an exception
\* is already stored, which then stays as it is
PromiseSetValue(sh, v) ==
    IF sh.tag = "unset"
    THEN [shared |-> SharedValue(v), raised |-> NoError]
    ELSE [shared |-> sh, raised |-> "promise_already_satisfied"]

\* std::promise<int>::set_exception: the same, storing an exception
PromiseSetException(sh, e) ==
    IF sh.tag = "unset"
    THEN [shared |-> SharedError(e), raised |-> NoError]
    ELSE [shared |-> sh, raised |-> "promise_already_satisfied"]

\* a readiness test that lets get() and wait() through at once
FutureAlwaysReady(sh) == TRUE

\* the shared state is ready: get() and wait() return without blocking
FutureReady(sh) == sh.tag # "unset"

\* a get that hands out the stored exception as if it were a value
FutureGetCoerces(sh) ==
    [has_value |-> TRUE, value |-> sh.value, raised |-> NoError]

\* std::future<int>::get on a ready state: returns the stored value, or
\* throws the stored exception and returns nothing
FutureGet(sh) ==
    [has_value |-> sh.tag = "value",
     value |-> IF sh.tag = "value" THEN sh.value ELSE 0,
     raised |-> IF sh.tag = "error" THEN sh.error ELSE NoError]

\* a get that leaves the future valid
FutureKeptByGet(fut) == fut

\* std::future<int>::get releases the shared state: valid() is false after it
FutureAfterGet(fut) == "invalid"

FThreads == {1, 2}
ProduceThread == <<"produce_value", 1>>
ConsumeThread == <<"consume_value", 2>>

FInit ==
    /\ p_shared = SharedUnset
    /\ f_future = "none"
    /\ fmpc = "f_promise"
    /\ pvpc = "pv_unborn"
    /\ cvpc = "cv_unborn"
    /\ cv_value = 0
    /\ f_mutex = NoThread
    /\ f_out = <<>>
    /\ fthreads = [t \in FThreads |-> NotAThread]
    /\ f_terminated = FALSE

\* std::this_thread::sleep_for(1s);
ProduceSleep ==
    /\ ~f_terminated
    /\ pvpc = "pv_sleep"
    /\ pvpc' = "pv_set"
    /\ UNCHANGED <<p_shared, f_future, fmpc, cvpc, cv_value, f_mutex, f_out,
                   fthreads, f_terminated>>
    /\ UNCHANGED notf

\* p.set_value(42);  an exception leaving produce_value ends in std::terminate
ProduceSetValue ==
    /\ ~f_terminated
    /\ pvpc = "pv_set"
    /\ LET r == PromiseSetValue(p_shared, ProducedValue) IN
          /\ p_shared' = r.shared
          /\ IF r.raised = NoError
             THEN pvpc' = "pv_done" /\ UNCHANGED f_terminated
             ELSE f_terminated' = TRUE /\ UNCHANGED pvpc
    /\ UNCHANGED <<f_future, fmpc, cvpc, cv_value, f_mutex, f_out, fthreads>>
    /\ UNCHANGED notf

ProduceValue ==
    \/ ProduceSleep
    \/ ProduceSetValue

\* auto value = f.get();  blocks until the shared state is ready
ConsumeGet ==
    /\ ~f_terminated
    /\ cvpc = "cv_get"
    /\ f_future = "valid"
    /\ FutureReady(p_shared)
    /\ LET r == FutureGet(p_shared) IN
          IF r.has_value
          THEN /\ cv_value' = r.value
               /\ cvpc' = "cv_lock"
               /\ UNCHANGED f_terminated
          ELSE /\ f_terminated' = TRUE
               /\ UNCHANGED <<cv_value, cvpc>>
    /\ f_future' = FutureAfterGet(f_future)
    /\ UNCHANGED <<p_shared, fmpc, pvpc, f_mutex, f_out, fthreads>>
    /\ UNCHANGED notf

\* std::lock_guard<std::mutex> lock(g_mutex);
ConsumeLock ==
    /\ ~f_terminated
    /\ cvpc = "cv_lock"
    /\ MutexFree(f_mutex)
    /\ f_mutex' = ConsumeThread
    /\ cvpc' = "cv_print"
    /\ UNCHANGED <<p_shared, f_future, fmpc, pvpc, cv_value, f_out, fthreads,
                   f_terminated>>
    /\ UNCHANGED notf

\* std::cout << value << std::endl;
ConsumePrint ==
    /\ ~f_terminated
    /\ cvpc = "cv_print"
    /\ f_out' = Append(f_out, cv_value)
    /\ cvpc' = "cv_unlock"
    /\ UNCHANGED <<p_shared, f_future, fmpc, pvpc, cv_value, f_mutex, fthreads,
                   f_terminated>>
    /\ UNCHANGED notf

\* } releases g_mutex; consume_value returns
ConsumeUnlock ==
    /\ ~f_terminated
    /\ cvpc = "cv_unlock"
    /\ f_mutex' = NoThread
    /\ cvpc' = "cv_done"
    /\ UNCHANGED <<p_shared, f_future, fmpc, pvpc, cv_value, f_out, fthreads,
                   f_terminated>>
    /\ UNCHANGED notf

ConsumeValue ==
    \/ ConsumeGet
    \/ ConsumeLock
    \/ ConsumePrint
    \/ ConsumeUnlock

\* ------------------------------------------------------------------------
\* recipe_8_06: execute()
\* ------------------------------------------------------------------------

\* std::promise<int> p;
FMainPromise ==
    /\ ~f_terminated
    /\ fmpc = "f_promise"
    /\ p_shared' = SharedUnset
    /\ fmpc' = "f_spawn1"
    /\ UNCHANGED <<f_future, pvpc, cvpc, cv_value, f_mutex, f_out, fthreads,
                   f_terminated>>
    /\ UNCHANGED notf

\* std::thread t1(produce_value, std::ref(p));
FMainSpawn1 ==
    /\ ~f_terminated
    /\ fmpc = "f_spawn1"
    /\ pvpc' = "pv_sleep"
    /\ fthreads' = [fthreads EXCEPT ![1] = ThreadConstruct(fthreads[1])]
    /\ fmpc' = "f_get_future"
    /\ UNCHANGED <<p_shared, f_future, cvpc, cv_value, f_mutex, f_out,
                   f_terminated>>
    /\ UNCHANGED notf

\* std::future<int> f = p.get_future();
FMainGetFuture ==
    /\ ~f_terminated
    /\ fmpc = "f_get_future"
    /\ f_future' = "valid"
    /\ fmpc' = "f_spawn2"
    /\ UNCHANGED <<p_shared, pvpc, cvpc, cv_value, f_mutex, f_out, fthreads,
                   f_terminated>>
    /\ UNCHANGED notf

\* std::thread t2(consume_value, std::ref(f));
FMainSpawn2 ==
    /\ ~f_terminated
    /\ fmpc = "f_spawn2"
    /\ cvpc' = "cv_get"
    /\ fthreads' = [fthreads EXCEPT ![2] = ThreadConstruct(fthreads[2])]
    /\ fmpc' = "f_join1"
    /\ UNCHANGED <<p_shared, f_future, pvpc, cv_value, f_mutex, f_out,
                   f_terminated>>
    /\ UNCHANGED notf

\* t1.join();
FMainJoin1 ==
    /\ ~f_terminated
    /\ fmpc = "f_join1"
    /\ fthreads[1] = "joinable"
    /\ pvpc = "pv_done"
    /\ fthreads' = [fthreads EXCEPT ![1] = ThreadJoin(fthreads[1])]
    /\ fmpc' = "f_join2"
    /\ UNCHANGED <<p_shared, f_future, pvpc, cvpc, cv_value, f_mutex, f_out,
                   f_terminated>>
    /\ UNCHANGED notf

\* t2.join();  and return
FMainJoin2 ==
    /\ ~f_terminated
    /\ fmpc = "f_join2"
    /\ fthreads[2] = "joinable"
    /\ cvpc = "cv_done"
    /\ fthreads' = [fthreads EXCEPT ![2] = ThreadJoin(fthreads[2])]
    /\ fmpc' = "f_done"
    /\ UNCHANGED <<p_shared, f_future, pvpc, cvpc, cv_value, f_mutex, f_out,
                   f_terminated>>
    /\ UNCHANGED notf

FMain ==
    \/ FMainPromise
    \/ FMainSpawn1
    \/ FMainGetFuture
    \/ FMainSpawn2
    \/ FMainJoin1
    \/ FMainJoin2

\* ------------------------------------------------------------------------
\* recipe_8_07: the functions run by std::async and by the main thread
\* ------------------------------------------------------------------------

\* return 42;  return 24;
ComputeSomethingResult == 42
ComputeSomethingElseResult == 24

AsyncThread == <<"async", 0>>
AMainThread == <<"main", 0>>

\* a wait_for that reports ready whatever the shared state holds
WaitForStatusEager(sh) == "ready"

\* std::future::wait_for: future_status::ready if the shared state is ready
\* when the wait ends, future_status::timeout otherwise
WaitForStatus(sh) == IF FutureReady(sh) THEN "ready" ELSE "timeout"

AInit ==
    /\ a_shared = SharedUnset
    /\ a_future = "none"
    /\ ampc = "a1_async"
    /\ atpc = "t_none"
    /\ a_value = 0
    /\ a_status = "none"
    /\ a_polls = 0
    /\ a_mutex = NoThread
    /\ a_out = <<>>

\* do_something: std::this_thread::sleep_for(2s);
DoSomethingSleep ==
    /\ atpc = "ds_sleep"
    /\ atpc' = "ds_lock"
    /\ UNCHANGED <<a_shared, a_future, ampc, a_value, a_status,
                   a_polls, a_mutex, a_out>>
    /\ UNCHANGED nota

\* do_something: std::lock_guard<std::mutex> lock(g_mutex);
DoSomethingLock ==
    /\ atpc = "ds_lock"
    /\ MutexFree(a_mutex)
    /\ a_mutex' = AsyncThread
    /\ atpc' = "ds_print"
    /\ UNCHANGED <<a_shared, a_future, ampc, a_value, a_status, a_polls, a_out>>
    /\ UNCHANGED nota

\* do_something: std::cout << "Operation 1 done!" << std::endl;
DoSomethingPrint ==
    /\ atpc = "ds_print"
    /\ a_out' = Append(a_out, "Operation 1 done!")
    /\ atpc' = "ds_unlock"
    /\ UNCHANGED <<a_shared, a_future, ampc, a_value,
                   a_status, a_polls, a_mutex>>
    /\ UNCHANGED nota

\* do_something: } releases g_mutex
DoSomethingUnlock ==
    /\ atpc = "ds_unlock"
    /\ a_mutex' = NoThread
    /\ atpc' = "ds_return"
    /\ UNCHANGED <<a_shared, a_future, ampc, a_value, a_status, a_polls, a_out>>
    /\ UNCHANGED nota

\* do_something has returned: std::async makes the shared state ready
DoSomethingReturn ==
    /\ atpc = "ds_return"
    /\ a_shared' = PromiseSetValue(a_shared, 0).shared
    /\ atpc' = "t_done"
    /\ UNCHANGED <<a_future, ampc, a_value, a_status, a_polls, a_mutex, a_out>>
    /\ UNCHANGED nota

\* compute_something: std::this_thread::sleep_for(2s);
ComputeSomethingSleep ==
    /\ atpc = "cs_sleep"
    /\ atpc' = "cs_return"
    /\ UNCHANGED <<a_shared, a_future, ampc, a_value, a_status,
                   a_polls, a_mutex, a_out>>
    /\ UNCHANGED nota

\* compute_something: return 42;  std::async stores it in the shared state
ComputeSomethingReturn ==
    /\ atpc = "cs_return"
    /\ a_shared' = PromiseSetValue(a_shared, ComputeSomethingResult).shared
    /\ atpc' = "t_done"
    /\ UNCHANGED <<a_future, ampc, a_value, a_status, a_polls, a_mutex, a_out>>
    /\ UNCHANGED nota

AsyncTask ==
    \/ DoSomethingSleep
    \/ DoSomethingLock
    \/ DoSomethingPrint
    \/ DoSomethingUnlock
    \/ DoSomethingReturn
    \/ ComputeSomethingSleep
    \/ ComputeSomethingReturn

\* ------------------------------------------------------------------------
\* recipe_8_07: execute()
\* ------------------------------------------------------------------------

\* auto f = std::async(std::launch::async, do_something);
AMainAsync1 ==
    /\ ampc = "a1_async"
    /\ a_shared' = SharedUnset
    /\ a_future' = "valid"
    /\ atpc' = "ds_sleep"
    /\ ampc' = "a1_sleep"
    /\ UNCHANGED <<a_value, a_status, a_polls, a_mutex, a_out>>
    /\ UNCHANGED nota

\* do_something_else(): std::this_thread::sleep_for(1s);
AMainElseSleep ==
    /\ ampc = "a1_sleep"
    /\ ampc' = "a1_lock"
    /\ UNCHANGED <<a_shared, a_future, atpc, a_value, a_status,
                   a_polls, a_mutex, a_out>>
    /\ UNCHANGED nota

\* do_something_else(): std::lock_guard<std::mutex> lock(g_mutex);
AMainElseLock ==
    /\ ampc = "a1_lock"
    /\ MutexFree(a_mutex)
    /\ a_mutex' = AMainThread
    /\ ampc' = "a1_print"
    /\ UNCHANGED <<a_shared, a_future, atpc, a_value, a_status, a_polls, a_out>>
    /\ UNCHANGED nota

\* do_something_else(): std::cout << "Operation 2 done!" << std::endl;
AMainElsePrint ==
    /\ ampc = "a1_print"
    /\ a_out' = Append(a_out, "Operation 2 done!")
    /\ ampc' = "a1_unlock"
    /\ UNCHANGED <<a_shared, a_future, atpc, a_value,
                   a_status, a_polls, a_mutex>>
    /\ UNCHANGED nota

\* do_something_else(): } releases g_mutex
AMainElseUnlock ==
    /\ ampc = "a1_unlock"
    /\ a_mutex' = NoThread
    /\ ampc' = "a1_wait"
    /\ UNCHANGED <<a_shared, a_future, atpc, a_value, a_status, a_polls, a_out>>
    /\ UNCHANGED nota

\* f.wait();  blocks until the shared state is ready
AMainWait ==
    /\ ampc = "a1_wait"
    /\ a_future = "valid"
    /\ FutureReady(a_shared)
    /\ ampc' = "a1_alldone"
    /\ UNCHANGED <<a_shared, a_future, atpc, a_value, a_status,
                   a_polls, a_mutex, a_out>>
    /\ UNCHANGED nota

\* std::cout << "all done!" << std::endl;  } destroys f, which waits for the task
AMainAllDone ==
    /\ ampc = "a1_alldone"
    /\ FutureReady(a_shared)
    /\ a_out' = Append(a_out, "all done!")
    /\ a_future' = "none"
    /\ ampc' = "a2_async"
    /\ UNCHANGED <<a_shared, atpc, a_value, a_status, a_polls, a_mutex>>
    /\ UNCHANGED nota

\* auto f = std::async(std::launch::async, compute_something);
AMainAsync2 ==
    /\ ampc = "a2_async"
    /\ a_shared' = SharedUnset
    /\ a_future' = "valid"
    /\ atpc' = "cs_sleep"
    /\ ampc' = "a2_sleep"
    /\ UNCHANGED <<a_value, a_status, a_polls, a_mutex, a_out>>
    /\ UNCHANGED nota

\* compute_something_else(): std::this_thread::sleep_for(1s);
AMainComputeElseSleep ==
    /\ ampc = "a2_sleep"
    /\ ampc' = "a2_return"
    /\ UNCHANGED <<a_shared, a_future, atpc, a_value, a_status,
                   a_polls, a_mutex, a_out>>
    /\ UNCHANGED nota

\* auto value = compute_something_else();  return 24;
AMainComputeElseReturn ==
    /\ ampc = "a2_return"
    /\ a_value' = ComputeSomethingElseResult
    /\ ampc' = "a2_get"
    /\ UNCHANGED <<a_shared, a_future, atpc, a_status, a_polls, a_mutex, a_out>>
    /\ UNCHANGED nota

\* value += f.get();  blocks until the shared state is ready
AMainGet ==
    /\ ampc = "a2_get"
    /\ a_future = "valid"
    /\ FutureReady(a_shared)
    /\ FutureGet(a_shared).has_value
    /\ a_value' = a_value + FutureGet(a_shared).value
    /\ a_future' = FutureAfterGet(a_future)
    /\ ampc' = "a2_print"
    /\ UNCHANGED <<a_shared, atpc, a_status, a_polls, a_mutex, a_out>>
    /\ UNCHANGED nota

\* std::cout << value << std::endl;  } destroys f
AMainPrintValue ==
    /\ ampc = "a2_print"
    /\ a_out' = Append(a_out, "value")
    /\ a_future' = "none"
    /\ ampc' = "a3_async"
    /\ UNCHANGED <<a_shared, atpc, a_value, a_status, a_polls, a_mutex>>
    /\ UNCHANGED nota

\* auto f = std::async(std::launch::async, do_something);
AMainAsync3 ==
    /\ ampc = "a3_async"
    /\ a_shared' = SharedUnset
    /\ a_future' = "valid"
    /\ atpc' = "ds_sleep"
    /\ ampc' = "a3_wait_for"
    /\ UNCHANGED <<a_value, a_status, a_polls, a_mutex, a_out>>
    /\ UNCHANGED nota

\* auto status = f.wait_for(300ms);  the 2s sleep of the task is over after
\* a bounded number of waits of 300ms: at most MaxPolls of them time out
\* if (status == std::future_status::ready) break;
AMainWaitFor ==
    /\ ampc = "a3_wait_for"
    /\ a_future = "valid"
    /\ a_polls < MaxPolls \/ FutureReady(a_shared)
    /\ a_status' = WaitForStatus(a_shared)
    /\ ampc' = IF a_status' = "ready" THEN "a3_done" ELSE "a3_waiting"
    /\ UNCHANGED <<a_shared, a_future, atpc, a_value, a_polls, a_mutex, a_out>>
    /\ UNCHANGED nota

\* std::cout << "waiting..." << std::endl;
AMainPrintWaiting ==
    /\ ampc = "a3_waiting"
    /\ a_polls' = a_polls + 1
    /\ ampc' = "a3_wait_for"
    /\ UNCHANGED <<a_shared, a_future, atpc, a_value, a_status, a_mutex, a_out>>
    /\ UNCHANGED nota

\* std::cout << "Done!" << std::endl;  } destroys f; execute returns
AMainPrintDone ==
    /\ ampc = "a3_done"
    /\ FutureReady(a_shared)
    /\ a_out' = Append(a_out, "Done!")
    /\ a_future' = "none"
    /\ ampc' = "a_done"
    /\ UNCHANGED <<a_shared, atpc, a_value, a_status, a_polls, a_mutex>>
    /\ UNCHANGED nota

AMain ==
    \/ AMainAsync1
    \/ AMainElseSleep
    \/ AMainElseLock
    \/ AMainElsePrint
    \/ AMainElseUnlock
    \/ AMainWait
    \/ AMainAllDone
    \/ AMainAsync2
    \/ AMainComputeElseSleep
    \/ AMainComputeElseReturn
    \/ AMainGet
    \/ AMainPrintValue
    \/ AMainAsync3
    \/ AMainWaitFor
    \/ AMainPrintWaiting
    \/ AMainPrintDone

\* ------------------------------------------------------------------------
\* recipe_8_03: move_between (third block of execute)
\* ------------------------------------------------------------------------

\* std::thread t1, t2 of the third block
Movers == {1, 2}
MoverThread(t) == <<"mover", t>>

\* the containers, by the order of their definition: c1, c2
Containers == {1, 2}

\* the push_back calls of the main thread, in program order
FillOrder == <<[c |-> 1, value |-> 1], [c |-> 1, value |-> 2],
               [c |-> 1, value |-> 3], [c |-> 2, value |-> 4],
               [c |-> 2, value |-> 5], [c |-> 2, value |-> 6]>>

\* the arguments of the two calls: t1 moves 3 from c1 to c2, t2 moves 6 from
\* c2 to c1.  Parameter c1 of move_between is "from", parameter c2 is "to"
MoveArgs == <<[from |-> 1, to |-> 2, value |-> 3],
              [from |-> 2, to |-> 1, value |-> 6]>>

\* the mutex of the n-th argument of std::lock(c1.mutex, c2.mutex)
LockArg(t, n) == IF n = 1 THEN MoveArgs[t].from ELSE MoveArgs[t].to

\* c.erase(std::remove(c.begin(), c.end(), value), c.end()): every element
\* equal to value is removed, the others keep their order
VectorRemove(v, value) == SelectSeq(v, LAMBDA e : e # value)

MvInit ==
    /\ c_data = [c \in Containers |-> <<>>]
    /\ c_mutex = [c \in Containers |-> NoThread]
    /\ mvmpc = "mv_fill"
    /\ mv_i = 0
    /\ mbpc = [t \in Movers |-> "mb_unborn"]
    /\ mb_first = [t \in Movers |-> 0]
    /\ mv_out = <<>>
    /\ mvthreads = [t \in Movers |-> NotAThread]

\* std::lock, first step: a blocking lock() of one of the two mutexes.  Which
\* one is tried first is left to the implementation
MoveLockFirst(t) ==
    /\ mbpc[t] = "mb_lock"
    /\ \E n \in {1, 2} :
        /\ MutexFree(c_mutex[LockArg(t, n)])
        /\ c_mutex' = [c_mutex EXCEPT ![LockArg(t, n)] = MoverThread(t)]
        /\ mb_first' = [mb_first EXCEPT ![t] = n]
    /\ mbpc' = [mbpc EXCEPT ![t] = "mb_try"]
    /\ UNCHANGED <<c_data, mvmpc, mv_i, mv_out, mvthreads>>
    /\ UNCHANGED notmv

\* a second step that waits for the other mutex while keeping the first
MoveLockSecondBlocking(t) ==
    /\ mbpc[t] = "mb_try"
    /\ MutexFree(c_mutex[LockArg(t, 3 - mb_first[t])])
    /\ c_mutex' = [c_mutex EXCEPT ![LockArg(t, 3 - mb_first[t])] = MoverThread(t)]
    /\ mbpc' = [mbpc EXCEPT ![t] = "mb_erase"]
    /\ UNCHANGED <<c_data, mvmpc, mv_i, mb_first, mv_out, mvthreads>>
    /\ UNCHANGED notmv

\* std::lock, second step: try_lock() of the other mutex.  If it is owned,
\* the first mutex is unlocked and std::lock starts again
MoveLockSecond(t) ==
    /\ mbpc[t] = "mb_try"
    /\ IF MutexFree(c_mutex[LockArg(t, 3 - mb_first[t])])
       THEN /\ c_mutex' = [c_mutex EXCEPT
                              ![LockArg(t, 3 - mb_first[t])] = MoverThread(t)]
            /\ mbpc' = [mbpc EXCEPT ![t] = "mb_erase"]
       ELSE /\ c_mutex' = [c_mutex EXCEPT
                              ![LockArg(t, mb_first[t])] = NoThread]
            /\ mbpc' = [mbpc EXCEPT ![t] = "mb_lock"]
    /\ UNCHANGED <<c_data, mvmpc, mv_i, mb_first, mv_out, mvthreads>>
    /\ UNCHANGED notmv

\* an erase after which both mutexes are given up before the push_back
MoveEraseUnlocks(t) ==
    /\ mbpc[t] = "mb_erase"
    /\ c_data' = [c_data EXCEPT ![MoveArgs[t].from] =
                     VectorRemove(c_data[MoveArgs[t].from], MoveArgs[t].value)]
    /\ c_mutex' = [c \in Containers |-> NoThread]
    /\ mbpc' = [mbpc EXCEPT ![t] = "mb_push"]
    /\ UNCHANGED <<mvmpc, mv_i, mb_first, mv_out, mvthreads>>
    /\ UNCHANGED notmv

\* c1.data.erase(std::remove(c1.data.begin(), c1.data.end(), value), ...)
MoveErase(t) ==
    /\ mbpc[t] = "mb_erase"
    /\ c_data' = [c_data EXCEPT ![MoveArgs[t].from] =
                     VectorRemove(c_data[MoveArgs[t].from], MoveArgs[t].value)]
    /\ mbpc' = [mbpc EXCEPT ![t] = "mb_push"]
    /\ UNCHANGED <<c_mutex, mvmpc, mv_i, mb_first, mv_out, mvthreads>>
    /\ UNCHANGED notmv

\* c2.data.push_back(value)
MovePush(t) ==
    /\ mbpc[t] = "mb_push"
    /\ c_data' = [c_data EXCEPT ![MoveArgs[t].to] =
                     Append(c_data[MoveArgs[t].to], MoveArgs[t].value)]
    /\ mbpc' = [mbpc EXCEPT ![t] = "mb_unlock2"]
    /\ UNCHANGED <<c_mutex, mvmpc, mv_i, mb_first, mv_out, mvthreads>>
    /\ UNCHANGED notmv

\* end of move_between: l2 is destroyed first and unlocks c2.mutex
MoveUnlock2(t) ==
    /\ mbpc[t] = "mb_unlock2"
    /\ c_mutex' = [c_mutex EXCEPT ![MoveArgs[t].to] = NoThread]
    /\ mbpc' = [mbpc EXCEPT ![t] = "mb_unlock1"]
    /\ UNCHANGED <<c_data, mvmpc, mv_i, mb_first, mv_out, mvthreads>>
    /\ UNCHANGED notmv

\* then l1 is destroyed and unlocks c1.mutex; the thread function returns
MoveUnlock1(t) ==
    /\ mbpc[t] = "mb_unlock1"
    /\ c_mutex' = [c_mutex EXCEPT ![MoveArgs[t].from] = NoThread]
    /\ mbpc' = [mbpc EXCEPT ![t] = "mb_done"]
    /\ UNCHANGED <<c_data, mvmpc, mv_i, mb_first, mv_out, mvthreads>>
    /\ UNCHANGED notmv

MoveBetween(t) ==
    \/ MoveLockFirst(t)
    \/ MoveLockSecond(t)
    \/ MoveErase(t)
    \/ MovePush(t)
    \/ MoveUnlock2(t)
    \/ MoveUnlock1(t)

\* c1.data.push_back(1) ... c2.data.push_back(6)
MvMainFill ==
    /\ mvmpc = "mv_fill"
    /\ mv_i < Len(FillOrder)
    /\ c_data' = [c_data EXCEPT ![FillOrder[mv_i + 1].c] =
                     Append(c_data[FillOrder[mv_i + 1].c],
                            FillOrder[mv_i + 1].value)]
    /\ mv_i' = mv_i + 1
    /\ mvmpc' = IF mv_i + 1 = Len(FillOrder) THEN "mv_print" ELSE "mv_fill"
    /\ UNCHANGED <<c_mutex, mbpc, mb_first, mv_out, mvthreads>>
    /\ UNCHANGED notmv

\* "Before:", print_container(c1), print_container(c2)
MvMainPrintBefore ==
    /\ mvmpc = "mv_print"
    /\ mv_out' = Append(mv_out, <<c_data[1], c_data[2]>>)
    /\ mvmpc' = "mv_spawn1"
    /\ UNCHANGED <<c_data, c_mutex, mv_i, mbpc, mb_first, mvthreads>>
    /\ UNCHANGED notmv

\* std::thread t1(move_between<int>, std::ref(c1), std::ref(c2), 3)
MvMainSpawn1 ==
    /\ mvmpc = "mv_spawn1"
    /\ mvthreads' = [mvthreads EXCEPT ![1] = ThreadConstruct(mvthreads[1])]
    /\ mbpc' = [mbpc EXCEPT ![1] = "mb_lock"]
    /\ mvmpc' = "mv_spawn2"
    /\ UNCHANGED <<c_data, c_mutex, mv_i, mb_first, mv_out>>
    /\ UNCHANGED notmv

\* std::thread t2(move_between<int>, std::ref(c2), std::ref(c1), 6)
MvMainSpawn2 ==
    /\ mvmpc = "mv_spawn2"
    /\ mvthreads' = [mvthreads EXCEPT ![2] = ThreadConstruct(mvthreads[2])]
    /\ mbpc' = [mbpc EXCEPT ![2] = "mb_lock"]
    /\ mvmpc' = "mv_join1"
    /\ UNCHANGED <<c_data, c_mutex, mv_i, mb_first, mv_out>>
    /\ UNCHANGED notmv

\* t1.join()
MvMainJoin1 ==
    /\ mvmpc = "mv_join1"
    /\ mvthreads[1] = "joinable"
    /\ mbpc[1] = "mb_done"
    /\ mvthreads' = [mvthreads EXCEPT ![1] = ThreadJoin(mvthreads[1])]
    /\ mvmpc' = "mv_join2"
    /\ UNCHANGED <<c_data, c_mutex, mv_i, mbpc, mb_first, mv_out>>
    /\ UNCHANGED notmv

\* t2.join()
MvMainJoin2 ==
    /\ mvmpc = "mv_join2"
    /\ mvthreads[2] = "joinable"
    /\ mbpc[2] = "mb_done"
    /\ mvthreads' = [mvthreads EXCEPT ![2] = ThreadJoin(mvthreads[2])]
    /\ mvmpc' = "mv_print_after"
    /\ UNCHANGED <<c_data, c_mutex, mv_i, mbpc, mb_first, mv_out>>
    /\ UNCHANGED notmv

\* "After:", print_container(c1), print_container(c2)
MvMainPrintAfter ==
    /\ mvmpc = "mv_print_after"
    /\ mv_out' = Append(mv_out, <<c_data[1], c_data[2]>>)
    /\ mvmpc' = "mv_done"
    /\ UNCHANGED <<c_data, c_mutex, mv_i, mbpc, mb_first, mvthreads>>
    /\ UNCHANGED notmv

MvMain ==
    \/ MvMainFill
    \/ MvMainPrintBefore
    \/ MvMainSpawn1
    \/ MvMainSpawn2
    \/ MvMainJoin1
    \/ MvMainJoin2
    \/ MvMainPrintAfter

\* ------------------------------------------------------------------------
\* recipe_8_04: foo_rec and foo.  execute() calls neither class: two threads
\* make the same calls on an object of each class
\* ------------------------------------------------------------------------

FooCallers == {1, 2}
FooCaller(t) == <<"caller", t>>

\* the public member functions and their arguments
FooMethods == {"update", "update_with_return"}
FooArgs == 1 .. MaxArg
FooCalls == [method : FooMethods, d : FooArgs]

\* what a call hands back: update() returns void
Returned(v) == [has_value |-> TRUE, value |-> v]
ReturnedVoid == [has_value |-> FALSE, value |-> 0]

\* the call thread t is making, given what its calls so far returned
NextCall(t, ret) == calls[t][Len(ret[t]) + 1]

\* std::recursive_mutex: lock() returns when no other thread owns the mutex
RecursiveMutexFree(owner, t) == owner = NoThread \/ owner = FooCaller(t)

FooInit ==
    /\ calls = [t \in FooCallers |-> <<>>]
    /\ foo_data = DefaultData
    /\ foo_m = NoThread
    /\ foo_pc = [t \in FooCallers |-> "foo_idle"]
    /\ foo_temp = [t \in FooCallers |-> DefaultData]
    /\ foo_ret = [t \in FooCallers |-> <<>>]
    /\ foo_log = <<>>
    /\ rec_data = DefaultData
    /\ rec_m = NoThread
    /\ rec_count = 0
    /\ rec_pc = [t \in FooCallers |-> "rec_idle"]
    /\ rec_temp = [t \in FooCallers |-> DefaultData]
    /\ rec_ret = [t \in FooCallers |-> <<>>]
    /\ rec_log = <<>>

\* thread t decides on its next call, which it makes on both objects
CallerNextCall(t) ==
    /\ Len(calls[t]) < MaxCalls
    /\ \E c \in FooCalls : calls' = [calls EXCEPT ![t] = Append(@, c)]
    /\ UNCHANGED <<foovars, recvars>>
    /\ UNCHANGED <<qvars, xvars, fvars, avars, mvvars>>

\* a lock_guard that does not wait for foo::m
FooLockSkipped(t) ==
    /\ foo_pc[t] = "foo_idle"
    /\ Len(foo_ret[t]) < Len(calls[t])
    /\ foo_m' = FooCaller(t)
    /\ foo_log' = Append(foo_log, <<t, Len(foo_ret[t]) + 1>>)
    /\ foo_pc' = [foo_pc EXCEPT ![t] =
                     IF NextCall(t, foo_ret).method = "update"
                     THEN "foo_internal_update" ELSE "foo_temp"]
    /\ UNCHANGED <<calls, foo_data, foo_temp, foo_ret>>
    /\ UNCHANGED notfoo

\* foo::update, foo::update_with_return: std::lock_guard<std::mutex> lock(m)
FooLock(t) ==
    /\ foo_pc[t] = "foo_idle"
    /\ Len(foo_ret[t]) < Len(calls[t])
    /\ MutexFree(foo_m)
    /\ foo_m' = FooCaller(t)
    /\ foo_log' = Append(foo_log, <<t, Len(foo_ret[t]) + 1>>)
    /\ foo_pc' = [foo_pc EXCEPT ![t] =
                     IF NextCall(t, foo_ret).method = "update"
                     THEN "foo_internal_update" ELSE "foo_temp"]
    /\ UNCHANGED <<calls, foo_data, foo_temp, foo_ret>>
    /\ UNCHANGED notfoo

\* foo::update_with_return: auto temp = data
FooTemp(t) ==
    /\ foo_pc[t] = "foo_temp"
    /\ foo_temp' = [foo_temp EXCEPT ![t] = foo_data]
    /\ foo_pc' = [foo_pc EXCEPT ![t] = "foo_internal_update"]
    /\ UNCHANGED <<calls, foo_data, foo_m, foo_ret, foo_log>>
    /\ UNCHANGED notfoo

\* foo::internal_update(d): data = d
FooInternalUpdate(t) ==
    /\ foo_pc[t] = "foo_internal_update"
    /\ foo_data' = NextCall(t, foo_ret).d
    /\ foo_pc' = [foo_pc EXCEPT ![t] = "foo_return"]
    /\ UNCHANGED <<calls, foo_m, foo_temp, foo_ret, foo_log>>
    /\ UNCHANGED notfoo

\* return temp (update_with_return) or the end of update: lock is destroyed
FooReturn(t) ==
    /\ foo_pc[t] = "foo_return"
    /\ foo_m' = NoThread
    /\ foo_ret' = [foo_ret EXCEPT ![t] =
                      Append(@, IF NextCall(t, foo_ret).method = "update"
                                THEN ReturnedVoid ELSE Returned(foo_temp[t]))]
    /\ foo_pc' = [foo_pc EXCEPT ![t] = "foo_idle"]
    /\ UNCHANGED <<calls, foo_data, foo_temp, foo_log>>
    /\ UNCHANGED notfoo

Foo(t) ==
    \/ FooLock(t)
    \/ FooTemp(t)
    \/ FooInternalUpdate(t)
    \/ FooReturn(t)

\* foo_rec::update_with_return: std::lock_guard<std::recursive_mutex> lock(m)
RecLock(t) ==
    /\ rec_pc[t] = "rec_idle"
    /\ Len(rec_ret[t]) < Len(calls[t])
    /\ NextCall(t, rec_ret).method = "update_with_return"
    /\ RecursiveMutexFree(rec_m, t)
    /\ rec_m' = FooCaller(t)
    /\ rec_count' = rec_count + 1
    /\ rec_log' = Append(rec_log, <<t, Len(rec_ret[t]) + 1>>)
    /\ rec_pc' = [rec_pc EXCEPT ![t] = "rec_temp"]
    /\ UNCHANGED <<calls, rec_data, rec_temp, rec_ret>>
    /\ UNCHANGED notrec

\* a temp that is read after the update: it holds the argument
RecTempLate(t) ==
    /\ rec_pc[t] = "rec_temp"
    /\ rec_temp' = [rec_temp EXCEPT ![t] = NextCall(t, rec_ret).d]
    /\ rec_pc' = [rec_pc EXCEPT ![t] = "rec_update"]
    /\ UNCHANGED <<calls, rec_data, rec_m, rec_count, rec_ret, rec_log>>
    /\ UNCHANGED notrec

\* foo_rec::update_with_return: auto temp = data
RecTemp(t) ==
    /\ rec_pc[t] = "rec_temp"
    /\ rec_temp' = [rec_temp EXCEPT ![t] = rec_data]
    /\ rec_pc' = [rec_pc EXCEPT ![t] = "rec_update"]
    /\ UNCHANGED <<calls, rec_data, rec_m, rec_count, rec_ret, rec_log>>
    /\ UNCHANGED notrec

\* foo_rec::update: std::lock_guard<std::recursive_mutex> lock(m), called by
\* the thread itself or from update_with_return, which owns m already
RecUpdateLock(t) ==
    /\ \/ rec_pc[t] = "rec_update"
       \/ /\ rec_pc[t] = "rec_idle"
          /\ Len(rec_ret[t]) < Len(calls[t])
          /\ NextCall(t, rec_ret).method = "update"
    /\ RecursiveMutexFree(rec_m, t)
    /\ rec_m' = FooCaller(t)
    /\ rec_count' = rec_count + 1
    /\ rec_log' = IF rec_pc[t] = "rec_idle"
                  THEN Append(rec_log, <<t, Len(rec_ret[t]) + 1>>)
                  ELSE rec_log
    /\ rec_pc' = [rec_pc EXCEPT ![t] = "rec_assign"]
    /\ UNCHANGED <<calls, rec_data, rec_temp, rec_ret>>
    /\ UNCHANGED notrec

\* foo_rec::update: data = d
RecAssign(t) ==
    /\ rec_pc[t] = "rec_assign"
    /\ rec_data' = NextCall(t, rec_ret).d
    /\ rec_pc' = [rec_pc EXCEPT ![t] = "rec_update_end"]
    /\ UNCHANGED <<calls, rec_m, rec_count, rec_temp, rec_ret, rec_log>>
    /\ UNCHANGED notrec

\* the end of foo_rec::update: lock is destroyed.  The mutex is released when
\* it has been unlocked as often as it was locked
RecUpdateEnd(t) ==
    /\ rec_pc[t] = "rec_update_end"
    /\ rec_count' = rec_count - 1
    /\ rec_m' = IF rec_count - 1 = 0 THEN NoThread ELSE rec_m
    /\ IF NextCall(t, rec_ret).method = "update"
       THEN /\ rec_ret' = [rec_ret EXCEPT ![t] = Append(@, ReturnedVoid)]
            /\ rec_pc' = [rec_pc EXCEPT ![t] = "rec_idle"]
       ELSE /\ rec_ret' = rec_ret
            /\ rec_pc' = [rec_pc EXCEPT ![t] = "rec_return"]
    /\ UNCHANGED <<calls, rec_data, rec_temp, rec_log>>
    /\ UNCHANGED notrec

\* foo_rec::update_with_return: return temp; lock is destroyed
RecReturn(t) ==
    /\ rec_pc[t] = "rec_return"
    /\ rec_count' = rec_count - 1
    /\ rec_m' = IF rec_count - 1 = 0 THEN NoThread ELSE rec_m
    /\ rec_ret' = [rec_ret EXCEPT ![t] = Append(@, Returned(rec_temp[t]))]
    /\ rec_pc' = [rec_pc EXCEPT ![t] = "rec_idle"]
    /\ UNCHANGED <<calls, rec_data, rec_temp, rec_log>>
    /\ UNCHANGED notrec

FooRec(t) ==
    \/ RecLock(t)
    \/ RecTemp(t)
    \/ RecUpdateLock(t)
    \/ RecAssign(t)
    \/ RecUpdateEnd(t)
    \/ RecReturn(t)

\* ------------------------------------------------------------------------
\* Specifications
\* ------------------------------------------------------------------------
Init == QInit /\ XInit /\ FInit /\ AInit /\ MvInit /\ FooInit

Next ==
    \/ \E p \in Producers : Producer(p)
    \/ Consumer
    \/ ConsumerSpurious
    \/ DoneVisible
    \/ Main

Spec == Init /\ [][Next]_vars

NextEx ==
    \/ \E w \in Workers : Worker(w)
    \/ XMain

SpecEx == Init /\ [][NextEx]_vars

NextPf ==
    \/ ProduceValue
    \/ ConsumeValue
    \/ FMain

NextAs ==
    \/ AsyncTask
    \/ AMain

SpecAs == Init /\ [][NextAs]_vars

\* Scheduling: the main thread and the thread of std::async are eventually
\* scheduled whenever they can run
SpecAsFair ==
    /\ SpecAs
    /\ WF_vars(AMain)
    /\ WF_vars(AsyncTask)

\* The two recipes that pass a result through a future, run side by side:
\* they share no state
NextFut ==
    \/ ProduceValue
    \/ ConsumeValue
    \/ FMain
    \/ AsyncTask
    \/ AMain

SpecFut == Init /\ [][NextFut]_vars

\* One of the three recipes that start threads by hand is run: a recipe
\* takes steps only while execute() of the other two has not been entered
NextThreads ==
    \/ xmpc = "x_clear" /\ fmpc = "f_promise" /\ Next
    \/ mpc = "m_spawn_consumer" /\ fmpc = "f_promise" /\ NextEx
    \/ mpc = "m_spawn_consumer" /\ xmpc = "x_clear" /\ NextPf

SpecThreads == Init /\ [][NextThreads]_vars

\* Scheduling: every runnable thread is eventually scheduled
SpecExFair ==
    /\ SpecEx
    /\ WF_vars(XMain)
    /\ \A w \in Workers : WF_vars(Worker(w))

\* Scheduling: every runnable thread is eventually scheduled and the store to
\* g_done eventually reaches the consumer.  wait_for waits until an absolute
\* deadline, so spurious wakeups, however many, do not put the timeout off:
\* the timeout is strongly fair.  A spurious wakeup is never owed.
SpecFair ==
    /\ Spec
    /\ WF_vars(Consumer)
    /\ SF_vars(ConsumerTimeout)
    /\ WF_vars(DoneVisible)
    /\ WF_vars(Main)
    /\ \A p \in Producers : WF_vars(Producer(p))

\* Fair scheduling of the mutexes as well: a producer that finds its mutex
\* free again and again eventually gets it (the consumer gives up g_lockqueue
\* in every wait and at the end of every iteration)
SpecFairLocks ==
    /\ SpecFair
    /\ \A p \in Producers : SF_vars(ProducerLockPrint(p))
    /\ \A p \in Producers : SF_vars(ProducerLockQueue(p))

NextMv ==
    \/ \E t \in Movers : MoveBetween(t)
    \/ MvMain

SpecMv == Init /\ [][NextMv]_vars

\* Scheduling: every runnable thread is eventually scheduled, and a try_lock
\* inside std::lock that could succeed again and again eventually does
SpecMvFair ==
    /\ SpecMv
    /\ WF_vars(MvMain)
    /\ \A t \in Movers : WF_vars(MoveBetween(t))
    /\ \A t \in Movers : SF_vars(MoveLockSecond(t) /\ mbpc'[t] = "mb_erase")

\* the two callers at work on the foo object and on the foo_rec object
NextFoo ==
    \/ \E t \in FooCallers : CallerNextCall(t)
    \/ \E t \in FooCallers : Foo(t)
    \/ \E t \in FooCallers : FooRec(t)

SpecFoo == Init /\ [][NextFoo]_vars

\* ------------------------------------------------------------------------
\* Helpers for the properties
\* ------------------------------------------------------------------------
Range(s) == {s[i] : i \in DOMAIN s}

BagOfSeq(s) == [v \in Range(s) |-> Cardinality({i \in DOMAIN s : s[i] = v})]

IsPrefix(s, t) == Len(s) <= Len(t) /\ \A i \in DOMAIN s : s[i] = t[i]

\* the producer id is recoverable from a value: dcode < 100
OriginOf(v) == v \div IdFactor

FromProducer(s, p) == SelectSeq(s, LAMBDA v : OriginOf(v) = p)

TotalItems == NumProducers * ItemsPerProducer

\* positions at which a thread reads or writes g_buffer
ProducerAccessPcs == {"p_push"}
ConsumerAccessPcs == {"c_pred", "c_loop", "c_front", "c_pop"}

\* ------------------------------------------------------------------------
\* Properties of recipe_8_05
\* ------------------------------------------------------------------------

\* C1: once the consumer thread has terminated, the multiset of consumed items
\* equals the multiset of pushed items and the queue is empty.
C1_AllConsumedOnce ==
    cpc = "c_done" =>
        /\ BagOfSeq(consumed) = BagOfSeq(pushed)
        /\ QueueEmpty(g_buffer)

\* C2: the consumer never leaves its loop while an item is still in the queue.
C2_ExitOnlyWhenDrained ==
    [][(cpc # "c_done" /\ cpc' = "c_done") => QueueEmpty(g_buffer)]_vars

C4_NoLostWakeup ==
    /\ [][\A p \in Producers :
            (ppc[p] = "p_notify" /\ ppc'[p] = "p_unlock" /\ cpc = "c_blocked")
                => (cpc' = "c_woken" /\ wake' = "notified")]_vars
    /\ []((cpc = "c_blocked" /\ ~QueueEmpty(g_buffer))
            => \E p \in Producers : ppc[p] = "p_notify")
    /\ \A n \in 1 .. TotalItems :
          (cpc = "c_blocked" /\ Len(pushed) >= n) ~> (Len(consumed) >= n)

C4_Witness ==
    /\ cpc = "c_woken"
    /\ wake = "notified"
    /\ ~QueueEmpty(g_buffer)
    /\ ~g_done

\* C5: the shutdown flag is set while the queue lock is held by the thread
\* that sets it, and a consumer blocked in its wait at that moment is
\* notified.
C5_CloseLocksAndNotifies ==
    [][(~g_done /\ g_done') =>
          /\ ~MutexFree(g_lockqueue)
          /\ g_lockqueue \notin {ConsumerThread} \cup {ProducerThread(p) : p \in Producers}
          /\ (cpc = "c_blocked" => (cpc' = "c_woken" /\ wake' = "notified"))]_vars

\* C6: after shutdown has been requested the consumer leaves its loop and the
\* main thread's join of it returns; the consumer never consumes an item that
\* was not pushed.
C6_ConsumerTerminates ==
    /\ g_done ~> (cpc = "c_done")
    /\ g_done ~> (mpc = "m_done")
    /\ [](BagOfSeq(consumed) \sqsubseteq BagOfSeq(pushed))

C6_Witness ==
    /\ mpc = "m_done"
    /\ cpc = "c_done"
    /\ QueueEmpty(g_buffer)
    /\ Len(consumed) = TotalItems

\* C7: a thread at a position where it reads or writes g_buffer owns
\* g_lockqueue, and at most one thread is at such a position.
C7_BufferUnderLock ==
    /\ \A p \in Producers :
          ppc[p] \in ProducerAccessPcs => g_lockqueue = ProducerThread(p)
    /\ cpc \in ConsumerAccessPcs => g_lockqueue = ConsumerThread
    /\ Cardinality({p \in Producers : ppc[p] \in ProducerAccessPcs})
          + (IF cpc \in ConsumerAccessPcs THEN 1 ELSE 0) <= 1

C7_Witness ==
    \E p, q \in Producers :
        /\ p # q
        /\ ppc[p] = "p_push"
        /\ ppc[q] = "p_lockqueue"
        /\ cpc \in {"c_lock", "c_woken"}

\* C8: g_done becomes true only when every producer thread has terminated, no
\* push is performed once it is true, and it never goes back to false.
C8_DoneAfterProducers ==
    [][/\ (~g_done /\ g_done') => \A p \in Producers : ppc[p] = "p_done"
       /\ g_done => g_done'
       /\ g_done => (pushed' = pushed /\ Len(g_buffer') <= Len(g_buffer))]_vars

C8_Witness ==
    /\ g_done
    /\ Len(pushed) = TotalItems
    /\ ~QueueEmpty(g_buffer)

\* ------------------------------------------------------------------------
\* Properties of recipe_8_02
\* ------------------------------------------------------------------------

\* positions of execute() after t2.join()
JoinedPcs == {"x_report", "x_test", "x_rethrow", "x_unwind", "x_print", "x_done"}

\* C9: after both workers have been joined the container holds exactly one
\* record per failing worker, both failures and no duplicate, and when the
\* main thread has finished it has reported exactly these two failures.
C9_BothFailuresKept ==
    /\ xmpc \in JoinedPcs =>
          /\ Len(g_exceptions) = 2
          /\ \A w \in Workers :
                Cardinality({i \in DOMAIN g_exceptions : g_exceptions[i] = ThrownBy(w)}) = 1
    /\ xmpc = "x_done" =>
          /\ Len(reported) = 2
          /\ \A w \in Workers :
                Cardinality({i \in DOMAIN reported : reported[i] = ThrownBy(w).what}) = 1

C9_Witness ==
    /\ xmpc = "x_done"
    /\ reported = <<"exception 2", "exception 1">>

\* C10: an exception thrown in a worker is caught in its thread function and
\* deposited: std::terminate is never reached, no exception leaves a thread
\* function, a worker that has returned has left its exception in the
\* container, and the joins of the main thread complete.
C10_NoEscape ==
    /\ [](/\ ~terminated
          /\ \A w \in Workers :
                /\ wpc[w] # "w_escaped"
                /\ wpc[w] = "w_returned" =>
                      \E i \in DOMAIN g_exceptions : g_exceptions[i] = ThrownBy(w))
    /\ <>(xmpc \in JoinedPcs)

C10_Witness ==
    /\ wpc[1] = "w_returned"
    /\ wpc[2] = "w_caught"
    /\ xmpc = "x_join2"
    /\ ~terminated

\* positions of execute() at which the main thread reads g_exceptions
XReadPcs == {"x_report", "x_test", "x_rethrow"}

\* C11: the main thread reads g_exceptions only when every worker has been
\* joined (has returned), and clears it only when no worker has been started.
C11_ContainerAccessOutsideWorkers ==
    /\ xmpc \in XReadPcs => \A w \in Workers : wpc[w] = "w_returned"
    /\ xmpc = "x_clear" => \A w \in Workers : wpc[w] = "w_unborn"
    /\ (\E w \in Workers : wpc[w] \notin {"w_unborn", "w_returned"})
          => xmpc \in {"x_spawn2", "x_join1", "x_join2"}

C11_Witness ==
    /\ xmpc = "x_rethrow"
    /\ xk = 2
    /\ g_exceptions = <<ThrownBy(2), ThrownBy(1)>>

\* ------------------------------------------------------------------------
\* Properties of recipe_8_05, continued
\* ------------------------------------------------------------------------

\* C19 (as claimed): no thread holds two mutexes at once, nor waits for one
\* mutex while it holds another.
C19_NeverNested ==
    /\ \A p \in Producers :
          /\ ~(g_lockprint = ProducerThread(p) /\ g_lockqueue = ProducerThread(p))
          /\ ~(g_lockprint = ProducerThread(p) /\ ppc[p] = "p_lockqueue")
          /\ ~(g_lockqueue = ProducerThread(p) /\ ppc[p] = "p_lockprint")
    /\ ~(g_lockqueue = ConsumerThread /\ g_lockprint = ConsumerThread)
    /\ ~(g_lockqueue = ConsumerThread /\ cpc = "c_lockprint")
    /\ ~(g_lockprint = ConsumerThread /\ cpc \in {"c_lock", "c_woken"})

\* C19 (amended): a producer never holds two mutexes nor waits for one while
\* holding the other; the consumer nests them in one order only: it takes
\* g_lockprint while holding g_lockqueue, and whenever it holds g_lockprint it
\* holds g_lockqueue; no thread takes g_lockqueue while holding g_lockprint.
C19_NestedInOneOrder ==
    /\ \A p \in Producers :
          /\ ~(g_lockprint = ProducerThread(p) /\ g_lockqueue = ProducerThread(p))
          /\ ~(g_lockprint = ProducerThread(p) /\ ppc[p] = "p_lockqueue")
          /\ ~(g_lockqueue = ProducerThread(p) /\ ppc[p] = "p_lockprint")
    /\ g_lockprint = ConsumerThread => g_lockqueue = ConsumerThread
    /\ cpc = "c_lockprint" => g_lockqueue = ConsumerThread
    /\ ~(g_lockprint = ConsumerThread /\ cpc \in {"c_lock", "c_woken", "c_blocked"})

C19_Witness ==
    /\ cpc = "c_front"
    /\ g_lockqueue = ConsumerThread
    /\ g_lockprint = ConsumerThread
    /\ \E p, q \in Producers :
          p # q /\ ppc[p] = "p_lockprint" /\ ppc[q] = "p_lockqueue"

\* C20: the consumer is at front() or pop(), or on its way there, only with a
\* non-empty queue and with g_lockqueue held: the emptiness test of the inner
\* loop is what lets it through, whatever ended the wait.
C20_PopOnlyNonEmpty ==
    cpc \in {"c_lockprint", "c_front", "c_pop"} =>
        /\ ~(g_buffer = <<>>)
        /\ g_lockqueue = ConsumerThread

C20_Witness ==
    /\ cpc = "c_pop"
    /\ Len(g_buffer) = 1
    /\ g_done

\* ------------------------------------------------------------------------
\* Properties of recipe_8_06 and recipe_8_07
\* ------------------------------------------------------------------------

\* positions of consume_value() after f.get() has returned
AfterGetPcs == {"cv_lock", "cv_print", "cv_unlock", "cv_done"}

C13_GetAfterSet ==
    /\ ~f_terminated
    /\ cvpc \in AfterGetPcs =>
          /\ pvpc = "pv_done"
          /\ p_shared.tag = "value"
          /\ cv_value = p_shared.value
    /\ f_out # <<>> => pvpc = "pv_done" /\ f_out = <<p_shared.value>>
    /\ ampc \in {"a1_alldone", "a2_print", "a3_done"} => atpc = "t_done"
    /\ ampc = "a2_print" =>
          /\ a_shared.tag = "value"
          /\ a_value = ComputeSomethingElseResult + a_shared.value
          /\ a_shared.value = ComputeSomethingResult

C13_Witness ==
    /\ cvpc = "cv_lock"
    /\ cv_value = ProducedValue
    /\ fmpc = "f_join1"
    /\ ampc = "a2_print"

PollPcs == {"a3_wait_for", "a3_waiting", "a3_done", "a_done"}

\* C16: wait_for answers ready exactly when the task has completed at the end
\* of the wait and timeout otherwise; it changes neither the future nor the
\* shared state; once the state is ready it stays ready, so every later
\* wait_for answers ready and get() would not block; and the polling loop
\* ends.
C16_PollUntilReady ==
    /\ [](a_status = "ready" => atpc = "t_done" /\ FutureReady(a_shared))
    /\ [][ampc = "a3_wait_for" /\ ampc' # ampc =>
             (/\ a_status' = (IF atpc = "t_done" THEN "ready" ELSE "timeout")
              /\ a_future' = a_future /\ a_future = "valid"
              /\ a_shared' = a_shared)]_vars
    /\ [][FutureReady(a_shared) /\ ampc \in PollPcs =>
             (/\ FutureReady(a_shared')
              /\ WaitForStatus(a_shared') = "ready")]_vars
    /\ (ampc = "a3_wait_for") ~> (ampc = "a_done")

C16_Witness ==
    /\ ampc = "a_done"
    /\ a_status = "ready"
    /\ a_polls >= 2
    /\ a_out[Len(a_out)] = "Done!"

\* ------------------------------------------------------------------------
\* Properties of the orchestrating functions: execute() of recipe_8_05,
\* recipe_8_02 and recipe_8_06
\* ------------------------------------------------------------------------

\* the vocabulary of the property: the phases of an orchestrating function,
\* in order
PhaseOrder == <<"Idle", "Running", "Draining", "Joined", "Reported">>
PhaseRank(ph) == CHOOSE i \in DOMAIN PhaseOrder : PhaseOrder[i] = ph

\* recipe_8_05: the phase execute() is in
QPhase ==
    CASE mpc = "m_spawn_consumer" -> "Idle"
      [] mpc \in {"m_spawn_producers", "m_join", "m_setdone"} -> "Running"
      [] mpc = "m_join_consumer" -> "Draining"
      [] mpc = "m_report" -> "Joined"
      [] mpc = "m_done" -> "Reported"

\* recipe_8_02: the phase execute() is in; its workers end by themselves, no
\* shutdown is requested, so Running is followed by Joined
XPhase ==
    CASE xmpc \in {"x_clear", "x_spawn1"} -> "Idle"
      [] xmpc \in {"x_spawn2", "x_join1", "x_join2"} -> "Running"
      [] xmpc \in {"x_report", "x_test", "x_rethrow", "x_unwind", "x_print"} -> "Joined"
      [] xmpc \in {"x_done", "x_escaped"} -> "Reported"

C18_JoinedExactlyOnce ==
    /\ []({consumerthread} \cup Range(threads) \cup Range(xthreads)
              \cup Range(fthreads) \subseteq {NotAThread, "joinable", "joined"})
    /\ [][/\ consumerthread' # consumerthread =>
                <<consumerthread, consumerthread'>> \in
                   {<<NotAThread, "joinable">>, <<"joinable", "joined">>}
          /\ \A p \in Producers : threads'[p] # threads[p] =>
                <<threads[p], threads'[p]>> \in
                   {<<NotAThread, "joinable">>, <<"joinable", "joined">>}
          /\ \A w \in Workers : xthreads'[w] # xthreads[w] =>
                <<xthreads[w], xthreads'[w]>> \in
                   {<<NotAThread, "joinable">>, <<"joinable", "joined">>}
          /\ \A t \in FThreads : fthreads'[t] # fthreads[t] =>
                <<fthreads[t], fthreads'[t]>> \in
                   {<<NotAThread, "joinable">>, <<"joinable", "joined">>}]_vars
    /\ [](mpc = "m_done" =>
             /\ consumerthread = "joined"
             /\ \A p \in Producers : threads[p] = "joined"
             /\ cpc = "c_done"
             /\ \A p \in Producers : ppc[p] = "p_done")
    /\ [](xmpc \in {"x_done", "x_escaped"} =>
             /\ \A w \in Workers : xthreads[w] = "joined"
             /\ \A w \in Workers : wpc[w] = "w_returned")
    /\ [](fmpc = "f_done" =>
             /\ \A t \in FThreads : fthreads[t] = "joined"
             /\ pvpc = "pv_done" /\ cvpc = "cv_done")

C18_Witness ==
    /\ fmpc = "f_done"
    /\ \A t \in FThreads : fthreads[t] = "joined"
    /\ f_out = <<ProducedValue>>

\* ------------------------------------------------------------------------
\* Properties of recipe_8_05: the wait, the push, the two mutexes
\* ------------------------------------------------------------------------

\* C21: the wait of the consumer is bounded: a blocked consumer gets back to
\* its test of g_done; a wait ended by the timeout returns to the inner loop
\* with g_lockqueue held and nothing consumed; with the queue (still) empty
\* there the consumer consumes nothing, releases g_lockqueue and goes to the
\* test of g_done before it waits again.
C21_BoundedWait ==
    /\ [][(cpc = "c_woken" /\ wake = "timeout" /\ cpc' # cpc) =>
             (/\ cpc' = "c_loop"
              /\ g_lockqueue' = ConsumerThread
              /\ consumed' = consumed
              /\ g_buffer' = g_buffer)]_vars
    /\ [][(cpc = "c_loop" /\ QueueEmpty(g_buffer) /\ cpc' # cpc) =>
             (/\ cpc' = "c_check"
              /\ g_lockqueue' = NoThread
              /\ consumed' = consumed
              /\ g_buffer' = g_buffer)]_vars
    /\ [](cpc = "c_check" => g_lockqueue # ConsumerThread)
    /\ (cpc = "c_blocked") ~> (cpc = "c_check")

C21_Witness ==
    /\ cpc = "c_woken"
    /\ wake = "timeout"
    /\ QueueEmpty(g_buffer)
    /\ g_done
    /\ ~done_seen

\* C22 (as claimed): the condition variable is signalled only after the
\* pushing thread has released g_lockqueue.
C22_NotifyAfterUnlock ==
    \A p \in Producers : ppc[p] = "p_notify" => g_lockqueue # ProducerThread(p)

\* C22 (amended): a push acquires g_lockqueue, appends the item at the back,
\* signals the condition variable while it still holds g_lockqueue, and
\* releases g_lockqueue last.
C22_NotifyUnderLock ==
    /\ [](\A p \in Producers :
            ppc[p] \in {"p_push", "p_notify", "p_unlock"} =>
               g_lockqueue = ProducerThread(p))
    /\ [][\A p \in Producers :
            /\ (ppc[p] = "p_lockqueue" /\ ppc'[p] # ppc[p]) =>
                  (ppc'[p] = "p_push" /\ g_buffer' = g_buffer)
            /\ (ppc[p] = "p_push" /\ ppc'[p] # ppc[p]) =>
                  (ppc'[p] = "p_notify" /\ g_buffer' = Append(g_buffer, pvalue[p]))
            /\ (ppc[p] = "p_notify" /\ ppc'[p] # ppc[p]) =>
                  (ppc'[p] = "p_unlock" /\ g_lockqueue' = ProducerThread(p))
            /\ (ppc[p] = "p_unlock" /\ ppc'[p] # ppc[p]) =>
                  (g_lockqueue' = NoThread /\ g_buffer' = g_buffer)]_vars

C22_Witness ==
    /\ cpc = "c_woken"
    /\ wake = "notified"
    /\ \E p \in Producers : ppc[p] = "p_unlock" /\ g_lockqueue = ProducerThread(p)

\* C30: no two threads each hold one of g_lockqueue, g_lockprint and wait for
\* the other; as long as execute() has not returned some thread can take a
\* step; and every producer finishes its three pushes.
C30_NoDeadlock ==
    /\ [](~ \E p \in Producers :
              \/ /\ g_lockprint = ProducerThread(p) /\ ppc[p] = "p_lockqueue"
                 /\ g_lockqueue = ConsumerThread /\ cpc = "c_lockprint"
              \/ \E q \in Producers \ {p} :
                    /\ g_lockprint = ProducerThread(p) /\ ppc[p] = "p_lockqueue"
                    /\ g_lockqueue = ProducerThread(q) /\ ppc[q] = "p_lockprint")
    /\ [](mpc # "m_done" => ENABLED Next)
    /\ \A p \in Producers :
          <>(ppc[p] = "p_done" /\ pi[p] = ItemsPerProducer)

C30_Witness ==
    /\ \A p \in Producers : ppc[p] = "p_done" /\ pi[p] = ItemsPerProducer
    /\ Len(pushed) = TotalItems
    /\ mpc = "m_join"

\* ------------------------------------------------------------------------
\* Properties of recipe_8_02: the order of the report, the deposits
\* ------------------------------------------------------------------------

\* C23: the main thread reports the failures in the order in which they lie
\* in g_exceptions, which is the order in which the workers took g_mutex: a
\* deposit is appended at the back by the worker that holds g_mutex.
C23_ReportInDepositOrder ==
    /\ [](/\ Len(reported) <= Len(g_exceptions)
          /\ \A i \in DOMAIN reported : reported[i] = g_exceptions[i].what
          /\ xmpc = "x_done" => Len(reported) = Len(g_exceptions))
    /\ [][\A w \in Workers :
            (wpc[w] = "w_push" /\ wpc'[w] # wpc[w]) =>
               (/\ g_mutex = WorkerThread(w)
                /\ g_exceptions' = Append(g_exceptions, ThrownBy(w)))]_vars

C23_Witness ==
    /\ xmpc = "x_print"
    /\ xk = 2
    /\ g_exceptions = <<ThrownBy(2), ThrownBy(1)>>
    /\ reported = <<"exception 2">>

\* C24 (as claimed): once the failures have been reported the container is
\* empty.
C24_DrainClears ==
    xmpc = "x_done" => g_exceptions = <<>>

\* C24 (amended): reporting leaves g_exceptions as it is: after the report it
\* still holds every captured failure; each is reported once, because the
\* loop visits each element once; the container is emptied only by the
\* clear() at the start of execute(), before any worker is started.
C24_ReportKeepsContainer ==
    /\ [][(g_exceptions' # g_exceptions) => (xmpc \notin JoinedPcs)]_vars
    /\ [][(xmpc = "x_clear" /\ xmpc' # xmpc) => g_exceptions' = <<>>]_vars
    /\ [](xmpc \in JoinedPcs => xk = Len(reported) + 1)
    /\ [](xmpc = "x_done" =>
            /\ Len(g_exceptions) = Cardinality(Workers)
            /\ Len(reported) = Len(g_exceptions))

C24_Witness ==
    /\ xmpc = "x_done"
    /\ Len(g_exceptions) = 2
    /\ reported = <<"exception 1", "exception 2">>

\* C25: deposits exclude one another: a worker that appends to g_exceptions,
\* or has appended and not yet released, owns g_mutex; at most one worker is
\* there; every deposit makes the container longer by exactly one.
C25_DepositsExclusive ==
    /\ [](\A w \in Workers :
            wpc[w] \in {"w_push", "w_unlock"} => g_mutex = WorkerThread(w))
    /\ [](Cardinality({w \in Workers : wpc[w] \in {"w_push", "w_unlock"}}) <= 1)
    /\ [][(g_exceptions' # g_exceptions /\ xmpc # "x_clear") =>
             (/\ Len(g_exceptions') = Len(g_exceptions) + 1
              /\ \E w \in Workers : wpc[w] = "w_push" /\ g_mutex = WorkerThread(w))]_vars

C25_Witness ==
    /\ wpc[1] = "w_push"
    /\ wpc[2] = "w_lock"
    /\ g_mutex = WorkerThread(1)
    /\ Len(g_exceptions) = 0

\* ------------------------------------------------------------------------
\* recipe_8_03: properties of move_between
\* ------------------------------------------------------------------------

\* the mutexes owned by thread t
MoverHolds(t) == {c \in Containers : c_mutex[c] = MoverThread(t)}

\* thread t is inside move_between and cannot take a step
MoverBlocked(t) ==
    /\ mbpc[t] \notin {"mb_unborn", "mb_done"}
    /\ ~ENABLED MoveBetween(t)

\* C26: the two threads calling move_between(c1, c2, 3) and
\* move_between(c2, c1, 6) never deadlock: there is no state in which each
\* thread owns one of the two mutexes and waits for the other, some step is
\* possible until execute() has returned, and both calls terminate
C26_NoLockOrderDeadlock ==
    /\ [](~(\A t \in Movers : Cardinality(MoverHolds(t)) = 1 /\ MoverBlocked(t)))
    /\ [](mvmpc # "mv_done" => ENABLED NextMv)
    /\ \A t \in Movers : (mbpc[t] = "mb_lock") ~> (mbpc[t] = "mb_done")

\* each thread owns one mutex, t1 that of c1 and t2 that of c2, and is about
\* to try the other one
C26_Witness ==
    /\ \A t \in Movers : mbpc[t] = "mb_try"
    /\ c_mutex[1] = MoverThread(1)
    /\ c_mutex[2] = MoverThread(2)

\* C27: move_between is atomic with respect to the two containers: from
\* erase to the end of push_back the thread owns both mutexes; once both
\* calls have finished, c1 is 1 2 6 and c2 is 4 5 3; and in every state in
\* which no mutex is owned the two containers together hold exactly the six
\* original values
C27_MoveAtomic ==
    /\ \A t \in Movers :
          mbpc[t] \in {"mb_erase", "mb_push", "mb_unlock2"}
              => MoverHolds(t) = Containers
    /\ (\A t \in Movers : mbpc[t] = "mb_done")
          => (c_data[1] = <<1, 2, 6>> /\ c_data[2] = <<4, 5, 3>>)
    /\ (mv_i = Len(FillOrder) /\ \A c \in Containers : c_mutex[c] = NoThread)
          => BagOfSeq(c_data[1] \o c_data[2]) = BagOfSeq(<<1, 2, 3, 4, 5, 6>>)

\* t2 has moved 6 and returned, t1 has not locked anything yet, and later
\* the main thread prints the final containers
C27_Witness ==
    /\ mvmpc = "mv_done"
    /\ Len(mv_out) = 2
    /\ mv_out[1] = <<<<1, 2, 3>>, <<4, 5, 6>>>>
    /\ mv_out[2] = <<<<1, 2, 6>>, <<4, 5, 3>>>>

\* ------------------------------------------------------------------------
\* recipe_8_04: properties of foo and foo_rec
\* ------------------------------------------------------------------------

\* the first call of each thread is update_with_return, both have returned
\* on foo, and no second call on foo has begun
FirstExchangesDone ==
    /\ \A t \in FooCallers :
          /\ Len(calls[t]) >= 1
          /\ calls[t][1].method = "update_with_return"
          /\ Len(foo_ret[t]) = 1
          /\ foo_pc[t] = "foo_idle"

\* C28: foo::update_with_return is an atomic exchange: its write happens
\* while data still holds the value it read into temp, and leaves data equal
\* to its argument; for two concurrent calls update_with_return(a) by thread
\* 1 and update_with_return(b) by thread 2 on an object holding d0, either
\* d0 and a are returned and data = b, or d0 and b are returned and data = a
C28_AtomicExchange ==
    /\ [](FirstExchangesDone =>
            \/ /\ foo_ret[1][1] = Returned(DefaultData)
               /\ foo_ret[2][1] = Returned(calls[1][1].d)
               /\ foo_data = calls[2][1].d
            \/ /\ foo_ret[2][1] = Returned(DefaultData)
               /\ foo_ret[1][1] = Returned(calls[2][1].d)
               /\ foo_data = calls[1][1].d)
    /\ [][\A t \in FooCallers :
            (FooInternalUpdate(t)
                /\ NextCall(t, foo_ret).method = "update_with_return")
            => (foo_temp[t] = foo_data /\ foo_data' = NextCall(t, foo_ret).d)]_vars

\* thread 2 exchanged first: it got d0, thread 1 got 2, and data is 1
C28_Witness ==
    /\ FirstExchangesDone
    /\ calls[1][1].d = 1
    /\ calls[2][1].d = 2
    /\ foo_ret[2][1] = Returned(DefaultData)
    /\ foo_ret[1][1] = Returned(2)
    /\ foo_data = 1

\* the calls locked the mutexes of the two objects in the same order, as far
\* as they have got
LogsAgree == IsPrefix(foo_log, rec_log) \/ IsPrefix(rec_log, foo_log)

ShorterLen(s, t) == IF Len(s) <= Len(t) THEN Len(s) ELSE Len(t)

\* no thread is inside a member function of either object
AllCallsReturned ==
    \A t \in FooCallers : foo_pc[t] = "foo_idle" /\ rec_pc[t] = "rec_idle"

\* C29: foo and foo_rec are observationally equivalent: when the same calls
\* take effect in the same order on both objects, every call returns the same
\* on both, and when all calls have returned both hold the same data; a thread
\* that is about to lock foo::m never owns it; and foo_rec::m is unlocked as
\* often as it was locked whenever a call has returned
C29_FooEquivalentToFooRec ==
    /\ LogsAgree =>
          \A t \in FooCallers :
              \A k \in 1 .. ShorterLen(foo_ret[t], rec_ret[t]) :
                  foo_ret[t][k] = rec_ret[t][k]
    /\ (foo_log = rec_log /\ AllCallsReturned) => foo_data = rec_data
    /\ \A t \in FooCallers : foo_pc[t] = "foo_idle" => foo_m # FooCaller(t)
    /\ \A t \in FooCallers : rec_pc[t] = "rec_idle" => rec_m # FooCaller(t)
    /\ (rec_count = 0) <=> (rec_m = NoThread)
    /\ (\A t \in FooCallers : rec_pc[t] = "rec_idle") => rec_count = 0

\* both threads have made MaxCalls calls on both objects, interleaved the
\* same way with thread 2 first, and an update_with_return of thread 1 handed
\* back on both objects what thread 2 had written
C29_Witness ==
    /\ AllCallsReturned
    /\ foo_log = rec_log
    /\ Len(foo_log) = MaxCalls * Cardinality(FooCallers)
    /\ foo_log[1] = <<2, 1>>
    /\ foo_log[2] = <<1, 1>>
    /\ calls[1][1].method = "update_with_return"
    /\ rec_ret[1][1] = Returned(calls[2][1].d)
    /\ foo_ret[1][1] = Returned(calls[2][1].d)
====
